---- MODULE Spec2Model ----
(***************************************************************************)
(* Processor run lifecycle engine of Asset-Intel: admission, in-process    *)
(* background execution, the ARQ worker with dispatcher, retry and         *)
(* dead-letter, requeue, cancellation, usage accounting.                   *)
(*                                                                         *)
(* The relational store is the tables runs / results / deadletters /       *)
(* usage / index.  Every commit of the code is one step; what a coroutine  *)
(* holds between two commits (its position, its locals) is a record of     *)
(* execs (handler executions) or of reqs (HTTP requests in flight).        *)
(***************************************************************************)
EXTENDS Integers, Sequences, FiniteSets, TLC

\* ---------------------------------------------------------------- bounds
MaxRuns == 2          \* runs ever admitted
MaxExecs == 2         \* handler executions in flight (background tasks + queue jobs)
MaxRequeues == 2      \* admin requeue calls that reset a run
MaxCancels == 1       \* cancel requests that reach their write
MaxRedeliveries == 2  \* deliveries of a job cut short by the worker stopping
MaxReqs == 2          \* HTTP requests between their read and their write

\* ------------------------------------------------------ program constants
MAX_TRIES == 3                 \* settings.ARQ_MAX_TRIES
MaxRunsPerMonth == 1000        \* PLAN_QUOTAS["free"]["max_runs_per_month"]
MaxCostCentsPerMonth == 1000   \* PLAN_QUOTAS["free"]["max_cost_cents_per_month"]
MAX_OCR_RETRIES_PER_SIGNATURE == 2
MAX_PDF_OCR_PAGES == 3

\* A nullable timestamp column is 0 when NULL; the clock starts at 1.
NullTime == 0
\* A nullable integer column (progress_total, content_length) is -1 when NULL.
NullInt == -1
\* None for a nullable string.
None == "None"
\* NULL for a Text column holding a message, and for a signature.
NoMsg == << >>
NoSig == None
\* NULL for asset_search_index.ocr_tsv.
NoTsv == << >>

Orgs == {"t1", "t2"}
\* The tenant whose API key admits runs; the other tenant calls with run ids
\* it does not own.
Owners == {"t1"}
Assets == {"a1"}
FINGERPRINT == "asset-fingerprint"
IMAGE_METADATA == "image-metadata"
OCR_TEXT == "ocr-text"
ProcessorNames == {IMAGE_METADATA, FINGERPRINT, OCR_TEXT}
TERMINAL_STATUSES == {"completed", "failed", "canceled"}

\* The registry as shipped, and with the OCR handler of ocr.py registered.
ShippedProcessors == {IMAGE_METADATA, FINGERPRINT}
OcrProcessors == {IMAGE_METADATA, FINGERPRINT, OCR_TEXT}

\* Error texts a handler raises with.
FETCH_ERROR == "fetch_error"
DEPENDENCY_ERROR == "pytesseract import error"
PDF_DEPENDENCY_ERROR == "Scanned-PDF OCR requires 'pdf2image' plus system Poppler. Import/setup error"
RASTERIZE_ERROR == "Failed to rasterize PDF"
NOT_IMAGE_ERROR == "OCR processor could not identify image/PDF content"
TIMEOUT_ERROR == "timed out"
MIN_RETRY_DELAY_SECONDS == 60
SUMMARY_MAX_LEN == 200
ELLIPSIS == "U+2026"
PREVIEW_MAX_CHARS == 1000
MOJIBAKE == "U+00E2 U+20AC U+00A6"
DEADLETTER_PREFIX == "Dead-lettered after repeated failures: "
UNKNOWN_PROCESSOR_PREFIX == "Unknown processor_name: "

VARIABLES
  runs,         \* table intelligence_runs, in creation order (id = position)
  results,      \* table intelligence_results, in insertion order
  deadletters,  \* table deadletter_events, in failed_at order
  usage,        \* table org_usage of the current period: org -> row or no row
  index,        \* table asset_search_index, in insertion order
  execs,        \* handler executions in flight
  reqs,         \* HTTP requests between their read and their write
  registry,     \* PROCESSORS: the registered processor names
  organizations, \* table organizations: org -> its billing columns
  stripe_events, \* table stripe_events, in commit order
  source,       \* what the asset's source URI serves now
  now,          \* datetime.utcnow()
  resp,         \* the response the step returned to its caller, if it returned one
  hist          \* history counts, and the caps of the workload being explored

\* The billing tables, which only the Stripe webhook writes.
billing == <<organizations, stripe_events>>

vars == <<runs, results, deadletters, usage, index, execs, reqs, registry, billing,
          source, now, resp, hist>>

\* ------------------------------------------------------------ helpers
SetMax(S) == CHOOSE x \in S : \A y \in S : y <= x

RunIds == DOMAIN runs

IsTerminal(status) == status \in TERMINAL_STATUSES

RemoveAt(s, i) == [j \in 1..(Len(s) - 1) |-> IF j < i THEN s[j] ELSE s[j + 1]]

Truthy(s) == s /= None /\ s /= ""

\* What the source URI can serve: a resource with an ETag, or one without
\* (then the fingerprint handler hashes the body).
Sources ==
  { [etag |-> "e1", sha256 |-> "h1", content_length |-> 10, last_modified |-> "lm1",
     kind |-> "image", pages |-> 0],
    [etag |-> None, sha256 |-> "h2", content_length |-> 10, last_modified |-> "lm1",
     kind |-> "scanned_pdf", pages |-> 3] }

InitialSource == CHOOSE s \in Sources : s.etag = "e1"

\* ------------------------------------------------- signature service
\* A signature that looks at the ETag before the content hash.
SignatureEtagFirst(data) ==
  IF Truthy(data.etag) THEN "etag:" \o data.etag
  ELSE IF Truthy(data.sha256) THEN "sha256:" \o data.sha256
  ELSE IF data.content_length /= NullInt /\ Truthy(data.last_modified)
       THEN "lenlm:" \o ToString(data.content_length) \o ":" \o data.last_modified
  ELSE NoSig

_signature_from_fingerprint_data(data) ==
  IF Truthy(data.sha256) THEN "sha256:" \o data.sha256
  ELSE IF Truthy(data.etag) THEN "etag:" \o data.etag
  ELSE IF data.content_length /= NullInt /\ Truthy(data.last_modified)
       THEN "lenlm:" \o ToString(data.content_length) \o ":" \o data.last_modified
  ELSE NoSig

\* The rows get_latest_fingerprint_signature's query can return first: the
\* fingerprint results of completed runs of (org, asset) with the greatest
\* completed_at (LIMIT 1 picks any of several equal ones).
LatestFingerprintRows(org, asset) ==
  LET cand == {k \in DOMAIN results :
                 /\ results[k].type = "fingerprint"
                 /\ runs[results[k].run].org = org
                 /\ runs[results[k].run].asset = asset
                 /\ runs[results[k].run].status = "completed"}
  IN {k \in cand : \A j \in cand :
        runs[results[j].run].completed_at <= runs[results[k].run].completed_at}

get_latest_fingerprint_signature(org, asset) ==
  IF LatestFingerprintRows(org, asset) = {} THEN {NoSig}
  ELSE {_signature_from_fingerprint_data(results[k].data) :
          k \in LatestFingerprintRows(org, asset)}

\* ------------------------------------------------------ pricing, quota
estimate_cost(proc) ==
  CASE proc = IMAGE_METADATA -> 1
    [] proc = FINGERPRINT -> 1
    [] proc = OCR_TEXT -> 2
    [] OTHER -> 0

NoUsage == [present |-> FALSE, intelligence_runs |-> 0, estimated_cost_cents |-> 0]

\* A quota check that lets the tenant reach the limit and one more.
QuotaStrictlyAbove(org) ==
  IF ~usage[org].present THEN "ok"
  ELSE IF usage[org].intelligence_runs > MaxRunsPerMonth THEN "quota_runs_exceeded"
  ELSE IF usage[org].estimated_cost_cents > MaxCostCentsPerMonth THEN "quota_cost_exceeded"
  ELSE "ok"

\* enforce_quota: "ok", or the error it raises (quota_runs_exceeded is the
\* HTTPException 429, quota_cost_exceeded the 402).
enforce_quota(org) ==
  IF ~usage[org].present THEN "ok"
  ELSE IF usage[org].intelligence_runs >= MaxRunsPerMonth THEN "quota_runs_exceeded"
  ELSE IF usage[org].estimated_cost_cents >= MaxCostCentsPerMonth THEN "quota_cost_exceeded"
  ELSE "ok"

\* record_usage lines 30-42 on the row its SELECT returned (lines 21-28):
\* the increments are made on the loaded values and committed.
record_usage(seen, org, cost) ==
  [usage EXCEPT ![org] = [present |-> TRUE,
                          intelligence_runs |-> seen.intelligence_runs + 1,
                          estimated_cost_cents |-> seen.estimated_cost_cents + cost]]

\* OrgUsage is keyed by (tenant, period): the INSERT of a row that the SELECT
\* did not find conflicts with a row committed since.
DUPLICATE_KEY_ERROR == "duplicate key value violates unique constraint"

UsageKeyConflict(seen, org) == ~seen.present /\ usage[org].present

\* ------------------------------------------------------------ admission
\* A policy that keeps only running and completed runs from being re-created.
CreateUnlessRunningOrCompleted(latest_status, force, retry) ==
  IF force THEN TRUE
  ELSE IF latest_status \in {"running", "completed"} THEN FALSE
  ELSE IF latest_status = "failed" THEN retry
  ELSE TRUE

_should_create_new_run(latest_status, force, retry) ==
  IF force THEN TRUE
  ELSE IF latest_status \in {"pending", "running", "completed"} THEN FALSE
  ELSE IF latest_status = "failed" THEN retry
  ELSE FALSE

\* The latest run of (org, asset, processor): 0 when there is none.
LatestRun(org, asset, proc) ==
  LET ids == {i \in RunIds : runs[i].org = org /\ runs[i].asset = asset
                              /\ runs[i].proc = proc}
  IN IF ids = {} THEN 0 ELSE SetMax(ids)

NewRun(org, asset, proc, sig) ==
  [org |-> org, asset |-> asset, proc |-> proc, status |-> "pending",
   error_message |-> NoMsg, completed_at |-> NullTime,
   cancel_requested |-> FALSE, canceled_at |-> NullTime,
   input_fingerprint_signature |-> IF proc /= FINGERPRINT THEN sig ELSE NoSig,
   progress_current |-> 0, progress_total |-> NullInt, progress_message |-> NoMsg,
   estimated_cost_cents |-> 0, retry_count |-> 0, last_retry_at |-> NullTime]

\* A reuse decision that never looks at the signatures.
ReuseIgnoringSignature(org, asset, proc, force, retry, current_sig) ==
  LET latest == LatestRun(org, asset, proc)
  IN IF latest /= 0 /\ ~_should_create_new_run(runs[latest].status, force, retry)
     THEN latest
     ELSE 0

\* The reuse decision of enqueue_processor_run (lines 86-97): the id of the
\* run to return, or 0 to create a new one.
ReuseDecision(org, asset, proc, force, retry, current_sig) ==
  LET latest == LatestRun(org, asset, proc)
  IN IF latest /= 0 /\ ~_should_create_new_run(runs[latest].status, force, retry)
     THEN IF current_sig = NoSig THEN latest
          ELSE IF runs[latest].input_fingerprint_signature = current_sig THEN latest
          ELSE 0
     ELSE 0

\* The fingerprint handler's data dict, before the HEAD request.
NoData == [content_type |-> None, content_length |-> NullInt, etag |-> None,
           last_modified |-> None, sha256 |-> None]

\* A handler execution: a background task of the API process (job 0) or a
\* delivery of the queue job that requeue number `job' enqueued.  seen is the
\* OrgUsage row that record_usage loaded.
NewExec(kind, run, job) ==
  [kind |-> kind, run |-> run, job |-> job, pc |-> "queued", job_try |-> 1,
   err |-> None, page |-> 0, pages |-> 0, data |-> NoData, seen |-> NoUsage]


\* cascade, already, ids: the locals of request_cancel_latest_run_for_asset
\* (its cascade argument, already_requested, canceled_ids).
NewReq(op, org, asset, proc, run, sig, force) ==
  [op |-> op, org |-> org, asset |-> asset, proc |-> proc, run |-> run, sig |-> sig,
   force |-> force, cascade |-> FALSE, already |-> FALSE, ids |-> {}]

\* What a step returns to its caller.  direct: no other step was taken between
\* the call's first read and its return.
Response(op, outcome, run) ==
  [op |-> op, outcome |-> outcome, run |-> run, direct |-> TRUE]

\* The call at position j of reqs has just done its reads; it has not returned.
Reading(j) == Response("enqueue", "reading", j)

NoResponse == Response("none", "none", 0)

\* Runs that admissions in flight are about to insert count against MaxRuns.
AdmitsInFlight == Cardinality({j \in DOMAIN reqs : reqs[j].op = "admit"})

\* The workloads explored: what the clients and the queue may do in one
\* behaviour.  Concurrent admissions with a cancel; one run driven through
\* the queue worker one execution at a time, up to its dead-letter and the
\* requeue after it; one run with a queue job beside its background task.
Workload(nruns, nexecs, nreqs, ncancels, nrequeues, nredeliveries) ==
  [runs |-> nruns, execs |-> nexecs, reqs |-> nreqs, cancels |-> ncancels,
   requeues |-> nrequeues, redeliveries |-> nredeliveries]

Workloads ==
  { Workload(MaxRuns, MaxExecs, MaxReqs, MaxCancels, 0, 0),
    Workload(MaxRuns - 1, MaxExecs - 1, MaxReqs - 1, 0, MaxRequeues, MaxRedeliveries),
    Workload(MaxRuns - 1, MaxExecs, MaxReqs - 1, MaxCancels, MaxRequeues - 1, 0) }

\* With the OCR handler: also the indexing workflow run one execution at a
\* time through fingerprint, failed OCR and its automatic retry.
OcrWorkloads ==
  Workloads \cup {Workload(MaxRuns + 1, MaxExecs - 1, 0, 0, MaxRequeues - 1, MaxRedeliveries)}

\* models/organization.py: the billing columns of an organization as the
\* model class declares them.
NewOrganization(customer_id) == [plan |-> "free", stripe_customer_id |-> customer_id]

InitialOrganizations == [o \in Orgs |-> NewOrganization(None)]

\* ---------------------------------------------------------------- Init
InitWith(processors, sources, workloads) ==
  /\ runs = << >>
  /\ results = << >>
  /\ deadletters = << >>
  /\ usage = [o \in Orgs |-> NoUsage]
  /\ index = << >>
  /\ execs = {}
  /\ reqs = << >>
  /\ registry = processors
  /\ organizations = InitialOrganizations
  /\ stripe_events = << >>
  /\ source \in sources
  /\ now = 1
  /\ resp = NoResponse
  /\ \E w \in workloads :
       hist = [completions |-> [o \in Orgs |-> 0],
               completed_cost |-> [o \in Orgs |-> 0],
               requeues |-> 0, cancels |-> 0, redeliveries |-> 0,
               forced |-> FALSE, cap |-> w]

Init == InitWith(ShippedProcessors, {InitialSource}, Workloads)

InitOcr == InitWith(OcrProcessors, Sources, OcrWorkloads)

\* ------------------------------------------------- enqueue_processor_run
\* Lines 54-97: the checks and reads up to the reuse decision.  A call that
\* reuses a run returns here; one that creates a run goes on to its commit.
AdmitRead(org, asset, proc, force, retry) ==
  /\ Len(reqs) < hist.cap.reqs
  /\ UNCHANGED <<runs, results, deadletters, usage, index, execs, registry, billing,
                 source, now, hist>>
  /\ IF proc \notin registry
     THEN /\ resp' = Response("enqueue", "unknown_processor", 0)
          /\ UNCHANGED reqs
     ELSE IF enforce_quota(org) /= "ok"
     THEN /\ resp' = Response("enqueue", enforce_quota(org), 0)
          /\ UNCHANGED reqs
     ELSE \E current_sig \in (IF proc /= FINGERPRINT
                              THEN get_latest_fingerprint_signature(org, asset)
                              ELSE {NoSig}) :
            LET reuse == ReuseDecision(org, asset, proc, force, retry, current_sig)
            IN IF reuse /= 0
               THEN /\ resp' = Response("enqueue", "reused", reuse)
                    /\ UNCHANGED reqs
               ELSE /\ Len(runs) + AdmitsInFlight < hist.cap.runs
                    /\ reqs' = Append(reqs, NewReq("admit", org, asset, proc, 0, current_sig, force))
                    /\ resp' = Reading(Len(reqs) + 1)

\* Lines 99-119: insert the run, commit, schedule the background task.
AdmitCommit(j) ==
  /\ j \in DOMAIN reqs
  /\ reqs[j].op = "admit"
  /\ Cardinality(execs) < hist.cap.execs
  /\ runs' = Append(runs, NewRun(reqs[j].org, reqs[j].asset, reqs[j].proc, reqs[j].sig))
  /\ execs' = execs \cup {NewExec("bg", Len(runs) + 1, 0)}
  /\ reqs' = RemoveAt(reqs, j)
  /\ resp' = [Response("enqueue", "created", Len(runs) + 1)
                EXCEPT !.direct = (resp = Reading(j))]
  /\ hist' = [hist EXCEPT !.forced = @ \/ reqs[j].force]
  /\ UNCHANGED <<results, deadletters, usage, index, registry, billing, source, now>>

\* ------------------------------------------------------ cancel_run_service
mark_run_canceled(r, message) ==
  [runs EXCEPT ![r].status = "canceled", ![r].canceled_at = now,
               ![r].completed_at = now, ![r].progress_message = message]

\* request_cancel_run lines 34-47: the select and the two early returns.
RequestCancelRead(org, r) ==
  /\ r \in RunIds
  /\ UNCHANGED <<runs, results, deadletters, usage, index, execs, registry, billing, source, now>>
  /\ IF runs[r].org /= org
     THEN /\ resp' = Response("cancel", "run_not_found", 0)
          /\ UNCHANGED <<reqs, hist>>
     ELSE IF IsTerminal(runs[r].status)
     THEN /\ resp' = Response("cancel", "already_terminal", r)
          /\ UNCHANGED <<reqs, hist>>
     ELSE /\ hist.cancels < hist.cap.cancels
          /\ Len(reqs) < hist.cap.reqs
          /\ hist' = [hist EXCEPT !.cancels = @ + 1]
          /\ reqs' = Append(reqs, NewReq("cancel", org, runs[r].asset, runs[r].proc, r, NoSig, FALSE))
          /\ resp' = NoResponse

\* request_cancel_run lines 49-56: the UPDATE ... WHERE id = run_id.
RequestCancelWrite(j) ==
  /\ j \in DOMAIN reqs
  /\ reqs[j].op = "cancel"
  /\ runs' = [runs EXCEPT ![reqs[j].run].cancel_requested = TRUE]
  /\ reqs' = RemoveAt(reqs, j)
  /\ resp' = Response("cancel", "requested", reqs[j].run)
  /\ UNCHANGED <<results, deadletters, usage, index, execs, registry, billing, source, now, hist>>

\* normalize_processor_name on names already stripped and in lower case.
normalize_processor_name(name) ==
  IF name \in {"ocr", "ocr_text", "ocr-text"} THEN OCR_TEXT
  ELSE IF name \in {"fingerprint", "asset_fingerprint", "asset-fingerprint"}
       THEN FINGERPRINT
  ELSE name

\* The processor names the cancel route is called with: an alias of each
\* processor that has a cascade role, and the empty name.
CancelNames == {"fingerprint", "ocr", ""}

\* The rows of the two selects: runs of (org, asset) with one of the
\* processors and status NOT IN TERMINAL_STATUSES.
NonTerminalRuns(org, asset, procs) ==
  {r \in RunIds : /\ runs[r].org = org /\ runs[r].asset = asset
                  /\ runs[r].proc \in procs /\ ~IsTerminal(runs[r].status)}

\* request_cancel_latest_run_for_asset lines 126-156: normalize, select the
\* latest non-terminal run, the two early returns.
CancelLatestRead(org, asset, processor_name, cascade) ==
  LET proc == normalize_processor_name(processor_name)
      active == NonTerminalRuns(org, asset, {proc})
  IN /\ UNCHANGED <<runs, results, deadletters, usage, index, execs, registry, billing,
                    source, now>>
     /\ IF proc = ""
        THEN /\ resp' = Response("cancel_latest", "invalid_processor_name", 0)
             /\ UNCHANGED <<reqs, hist>>
        ELSE IF active = {}
        THEN /\ resp' = Response("cancel_latest", "no_active_run_found", 0)
             /\ UNCHANGED <<reqs, hist>>
        ELSE /\ hist.cancels < hist.cap.cancels
             /\ Len(reqs) < hist.cap.reqs
             /\ hist' = [hist EXCEPT !.cancels = @ + 1]
             /\ reqs' = Append(reqs,
                   [NewReq("cancel_latest", org, asset, proc, SetMax(active), NoSig, FALSE)
                      EXCEPT !.cascade = cascade,
                             !.already = runs[SetMax(active)].cancel_requested])
             /\ resp' = NoResponse

\* Lines 158-188 with _cascade_cancel_asset_runs lines 71-93: the UPDATE of the
\* selected run, then for a cascading fingerprint cancel the select of the
\* asset's non-terminal ocr-text runs (at most MaxRuns, under its LIMIT 50).
CancelLatestWrite(j) ==
  /\ j \in DOMAIN reqs
  /\ reqs[j].op = "cancel_latest"
  /\ runs' = IF reqs[j].already THEN runs
             ELSE [runs EXCEPT ![reqs[j].run].cancel_requested = TRUE]
  /\ LET canceled_ids ==
           IF reqs[j].cascade /\ reqs[j].proc = FINGERPRINT
           THEN {r \in NonTerminalRuns(reqs[j].org, reqs[j].asset, {OCR_TEXT}) :
                   r /= reqs[j].run /\ ~runs[r].cancel_requested}
           ELSE {}
     IN IF canceled_ids = {}
        THEN /\ reqs' = RemoveAt(reqs, j)
             /\ resp' = Response("cancel_latest", "ok", reqs[j].run)
        ELSE /\ reqs' = [reqs EXCEPT ![j].op = "cascade", ![j].ids = canceled_ids]
             /\ resp' = NoResponse
  /\ UNCHANGED <<results, deadletters, usage, index, execs, registry, billing, source, now, hist>>

\* _cascade_cancel_asset_runs lines 96-107: the single UPDATE of the selected
\* ids, then request_cancel_latest_run_for_asset returns.
CascadeWrite(j) ==
  /\ j \in DOMAIN reqs
  /\ reqs[j].op = "cascade"
  /\ runs' = [r \in DOMAIN runs |->
               IF /\ r \in reqs[j].ids
                  /\ runs[r].org = reqs[j].org /\ runs[r].asset = reqs[j].asset
               THEN [runs[r] EXCEPT !.cancel_requested = TRUE]
               ELSE runs[r]]
  /\ reqs' = RemoveAt(reqs, j)
  /\ resp' = Response("cancel_latest", "ok", reqs[j].run)
  /\ UNCHANGED <<results, deadletters, usage, index, execs, registry, billing, source, now, hist>>

\* ------------------------------------------------------------ handlers
Retire(e) == execs' = execs \ {e}

Become(e, f) == execs' = (execs \ {e}) \cup {f}

Goto(e, pc) == Become(e, [e EXCEPT !.pc = pc])

NoteCompletion(r) ==
  hist' = [hist EXCEPT !.completions[runs[r].org] = @ + 1,
                       !.completed_cost[runs[r].org] = @ + estimate_cost(runs[r].proc)]

\* The first commit of a handler.  process_ocr_run lines 162-181 (the
\* pre-start cancel check, then running); process_fingerprint_run lines 18-31
\* and process_image_metadata_run lines 17-30 (running, no check).
HandlerStart(e) ==
  LET r == e.run
  IN /\ IF runs[r].proc = OCR_TEXT
        THEN IF runs[r].cancel_requested
             THEN /\ runs' = mark_run_canceled(r, <<"canceled before start">>)
                  /\ now' = now + 1
                  /\ Goto(e, "ret")
             ELSE /\ runs' = [runs EXCEPT ![r].status = "running",
                                          ![r].error_message = NoMsg,
                                          ![r].progress_current = 0,
                                          ![r].progress_total = NullInt,
                                          ![r].progress_message = <<"starting">>]
                  /\ Goto(e, "fetch")
                  /\ UNCHANGED now
        ELSE /\ runs' = [runs EXCEPT ![r].status = "running",
                                     ![r].error_message = NoMsg]
             /\ Goto(e, "fetch")
             /\ UNCHANGED now
     /\ UNCHANGED <<results, deadletters, usage, index, reqs, registry, billing, source,
                    hist>>

\* run_processor_in_background lines 122-139: the task starts its handler.
BgStart(e) ==
  /\ e \in execs
  /\ resp' = NoResponse
  /\ e.kind = "bg"
  /\ e.pc = "queued"
  /\ IF runs[e.run].proc \notin registry
     THEN /\ Retire(e)
          /\ UNCHANGED <<runs, results, deadletters, usage, index, reqs, registry, billing,
                         source, now, hist>>
     ELSE HandlerStart(e)

\* dispatch_run lines 18-43: load the run, return on a terminal one, fail an
\* unregistered processor, otherwise call the handler.
Dispatch(e) ==
  /\ e \in execs
  /\ resp' = NoResponse
  /\ e.kind = "arq"
  /\ e.pc = "queued"
  /\ LET r == e.run
     IN IF IsTerminal(runs[r].status)
        THEN /\ Retire(e)
             /\ UNCHANGED <<runs, now>>
        ELSE IF runs[r].proc \notin registry
        THEN /\ runs' = [runs EXCEPT ![r].status = "failed",
                           ![r].error_message = <<UNKNOWN_PROCESSOR_PREFIX, runs[r].proc>>,
                           ![r].completed_at = now]
             /\ now' = now + 1
             /\ Retire(e)
        ELSE /\ Goto(e, "start")
             /\ UNCHANGED <<runs, now>>
  /\ UNCHANGED <<results, deadletters, usage, index, reqs, registry, billing, source, hist>>

\* The handler called by dispatch_run (line 43) makes its first commit.
JobHandlerStart(e) ==
  /\ e \in execs
  /\ resp' = NoResponse
  /\ e.kind = "arq"
  /\ e.pc = "start"
  /\ HandlerStart(e)

\* requests.head / requests.get / Image.open raise: the handler raises.
HandlerRaises(e) ==
  /\ e \in execs
  /\ resp' = NoResponse
  /\ e.pc = "fetch"
  /\ Become(e, [e EXCEPT !.pc = "raise", !.err = FETCH_ERROR])
  /\ UNCHANGED <<runs, results, deadletters, usage, index, reqs, registry, billing, source,
                 now, hist>>

\* fingerprint.py lines 37-68: the data dict for what the source serves (the
\* body is hashed only when the HEAD response has no ETag).
FingerprintDataOf(src) ==
  [content_type |-> src.kind, content_length |-> src.content_length,
   etag |-> src.etag, last_modified |-> src.last_modified,
   sha256 |-> IF Truthy(src.etag) THEN None ELSE src.sha256]

FingerprintData == FingerprintDataOf(source)

\* The source is fetched.  image_metadata.py lines 42-71: result and completed
\* in one commit.  fingerprint.py lines 37-77: the signature is committed on
\* the run.  ocr.py lines 185-225: the cancel check after the download, then the
\* first progress commit.
HandlerFetched(e) ==
  /\ e \in execs
  /\ resp' = NoResponse
  /\ e.pc = "fetch"
  /\ LET r == e.run
     IN CASE runs[r].proc = IMAGE_METADATA ->
               /\ results' = Append(results, [run |-> r, type |-> "image_metadata",
                                              data |-> NoData])
               /\ runs' = [runs EXCEPT ![r].status = "completed", ![r].completed_at = now]
               /\ now' = now + 1
               /\ NoteCompletion(r)
               /\ Goto(e, "ret")
          [] runs[r].proc = FINGERPRINT ->
               /\ runs' = [runs EXCEPT ![r].input_fingerprint_signature =
                                          _signature_from_fingerprint_data(FingerprintData)]
               /\ Become(e, [e EXCEPT !.pc = "persist", !.data = FingerprintData])
               /\ UNCHANGED <<results, now, hist>>
          [] OTHER ->
               IF runs[r].cancel_requested
               THEN /\ runs' = mark_run_canceled(r, <<"canceled after download">>)
                    /\ now' = now + 1
                    /\ Goto(e, "ret")
                    /\ UNCHANGED <<results, hist>>
               ELSE IF source.kind = "scanned_pdf"
               THEN /\ runs' = [runs EXCEPT ![r].progress_current = 0,
                                  ![r].progress_total = NullInt,
                                  ![r].progress_message = <<"pdf looks scanned; starting ocr">>]
                    /\ Become(e, [e EXCEPT !.pc = "page", !.page = 1,
                                             !.pages = IF source.pages < MAX_PDF_OCR_PAGES
                                                       THEN source.pages
                                                       ELSE MAX_PDF_OCR_PAGES])
                    /\ UNCHANGED <<results, now, hist>>
               ELSE /\ runs' = [runs EXCEPT ![r].progress_current = 1,
                                  ![r].progress_total = 1,
                                  ![r].progress_message = <<"image ocr completed">>]
                    /\ Goto(e, "persist")
                    /\ UNCHANGED <<results, now, hist>>
  /\ UNCHANGED <<deadletters, usage, index, reqs, registry, billing, source>>


\* A text is the sequence of its pieces: of its characters where lengths
\* matter, of whole phrases elsewhere.  str.strip() removes the white space at
\* both ends.
Whitespace == {" ", "\n", "\r", "\t"}

RECURSIVE lstrip(_)
lstrip(s) == IF s /= << >> /\ Head(s) \in Whitespace THEN lstrip(Tail(s)) ELSE s

RECURSIVE rstrip(_)
rstrip(s) ==
  IF s /= << >> /\ s[Len(s)] \in Whitespace THEN rstrip(SubSeq(s, 1, Len(s) - 1)) ELSE s

strip(s) == rstrip(lstrip(s))

replace(s, old, new) == [i \in DOMAIN s |-> IF s[i] = old THEN new ELSE s[i]]

\* models/asset_search_index.py: a row with only its key set.
NewIndexRow(org, asset) ==
  [org |-> org, asset |-> asset, sha256 |-> None, etag |-> None, content_type |-> None,
   last_modified |-> None, ocr_text_preview |-> NoTsv, ocr_tsv |-> NoTsv,
   updated_at |-> NullTime]

\* The rows of a table tbl of the index with the key (org, asset).
IndexRows(tbl, org, asset) ==
  {k \in DOMAIN tbl : tbl[k].org = org /\ tbl[k].asset = asset}

SetColumns(row, values) ==
  [f \in DOMAIN row |-> IF f \in DOMAIN values THEN values[f] ELSE row[f]]

\* An insert that does not look for a row with the same key.
PlainInsert(tbl, org, asset, values) ==
  Append(tbl, SetColumns(NewIndexRow(org, asset), values))

\* INSERT ... ON CONFLICT (org_id, asset_id) DO UPDATE SET ..., one statement
\* under the unique constraint uq_asset_search_index_org_asset.
on_conflict_do_update(tbl, org, asset, values) ==
  IF IndexRows(tbl, org, asset) = {}
  THEN Append(tbl, SetColumns(NewIndexRow(org, asset), values))
  ELSE [k \in DOMAIN tbl |->
          IF k \in IndexRows(tbl, org, asset) THEN SetColumns(tbl[k], values) ELSE tbl[k]]

\* search_index_service.py lines 15-17: the stripped text, cut after
\* max_chars pieces with the three characters of a mis-encoded ellipsis added.
_preview(text, max_chars) ==
  LET t == strip(text)
  IN IF Len(t) <= max_chars THEN t ELSE SubSeq(t, 1, max_chars) \o <<MOJIBAKE>>

\* A nullable column that holds the value v; NoTsv is its NULL.
Some(v) == <<v>>

\* The text of the first k pages of a scanned PDF.
PagesText(k) == <<"pages", ToString(k)>>

\* The columns the two upserts write; ocr_tsv holds the vector Postgres
\* makes of the stripped text.
FingerprintColumns(data, t) ==
  [sha256 |-> data.sha256, etag |-> data.etag, content_type |-> data.content_type,
   last_modified |-> data.last_modified, updated_at |-> t]

OcrColumns(text, t) ==
  [ocr_text_preview |-> Some(_preview(strip(text), PREVIEW_MAX_CHARS)),
   ocr_tsv |-> Some(strip(text)), updated_at |-> t]

\* search_index_service.py lines 20-48 and 51-79.
upsert_fingerprint_into_index(org, asset, data) ==
  on_conflict_do_update(index, org, asset, FingerprintColumns(data, now))

upsert_ocr_into_index(org, asset, text) ==
  on_conflict_do_update(index, org, asset, OcrColumns(text, now))

\* related_assets_service.py lines 110-119 (_get_index_row): the row of
\* (org, asset), or a row with only its key when there is none.
IndexRow(org, asset) ==
  IF IndexRows(index, org, asset) = {} THEN NewIndexRow(org, asset)
  ELSE index[CHOOSE k \in IndexRows(index, org, asset) : TRUE]

\* _upsert_partial_result lines 79-107: update the run's ocr_text_partial row
\* when the select finds one, insert it otherwise.
PartialRows(r) == {k \in DOMAIN results : results[k].run = r
                                         /\ results[k].type = "ocr_text_partial"}

\* A partial write that inserts a row for every page.
InsertPartialResult(r, pages_completed, pages_total) ==
  Append(results, [run |-> r, type |-> "ocr_text_partial",
                   data |-> [pages_completed |-> pages_completed,
                             pages_total |-> pages_total,
                             text_partial |-> PagesText(pages_completed)]])

_upsert_partial_result(r, pages_completed, pages_total) ==
  LET payload == [pages_completed |-> pages_completed, pages_total |-> pages_total,
                  text_partial |-> PagesText(pages_completed)]
  IN IF PartialRows(r) /= {}
     THEN [k \in DOMAIN results |->
             IF k = SetMax(PartialRows(r)) THEN [results[k] EXCEPT !.data = payload]
             ELSE results[k]]
     ELSE Append(results, [run |-> r, type |-> "ocr_text_partial", data |-> payload])

\* ocr.py lines 238-282: one page of the rasterized PDF: the cancel check, the
\* progress commit, the partial result and its index upsert.
OcrPage(e) ==
  /\ e \in execs
  /\ resp' = NoResponse
  /\ e.pc = "page"
  /\ LET r == e.run
         page_i == e.page
         total == e.pages
     IN IF runs[r].cancel_requested
        THEN /\ runs' = mark_run_canceled(r, <<"canceled during pdf ocr (page", page_i - 1, total>>)
             /\ now' = now + 1
             /\ Goto(e, "ret")
             /\ UNCHANGED <<results, index>>
        ELSE /\ results' = _upsert_partial_result(r, page_i, total)
             /\ index' = upsert_ocr_into_index(runs[r].org, runs[r].asset, PagesText(page_i))
             /\ IF page_i < total
                THEN /\ runs' = [runs EXCEPT ![r].progress_current = page_i - 1,
                                   ![r].progress_total = total,
                                   ![r].progress_message = <<"ocr page", page_i, total>>]
                     /\ Become(e, [e EXCEPT !.page = page_i + 1])
                ELSE /\ runs' = [runs EXCEPT ![r].progress_current = total,
                                   ![r].progress_total = total,
                                   ![r].progress_message = <<"pdf ocr completed">>]
                     /\ Goto(e, "persist")
             /\ UNCHANGED now
  /\ UNCHANGED <<deadletters, usage, reqs, registry, billing, source, hist>>

\* The final Result row and its index upsert, which commits.  fingerprint.py
\* lines 79-97; ocr.py lines 367-398 (with the cancel check before finalize).
HandlerPersist(e) ==
  /\ e \in execs
  /\ resp' = NoResponse
  /\ e.pc = "persist"
  /\ LET r == e.run
     IN IF runs[r].proc = FINGERPRINT
        THEN /\ results' = Append(results, [run |-> r, type |-> "fingerprint",
                                            data |-> e.data])
             /\ index' = upsert_fingerprint_into_index(runs[r].org, runs[r].asset,
                                                       e.data)
             /\ Goto(e, "complete")
             /\ UNCHANGED <<runs, now>>
        ELSE IF runs[r].cancel_requested
        THEN /\ runs' = mark_run_canceled(r, <<"canceled before finalize">>)
             /\ now' = now + 1
             /\ Goto(e, "ret")
             /\ UNCHANGED <<results, index>>
        ELSE /\ results' = Append(results,
                  [run |-> r, type |-> "ocr_text",
                   data |-> [text |-> IF e.pages > 0
                                      THEN PagesText(e.pages) ELSE <<"image">>]])
             /\ index' = upsert_ocr_into_index(runs[r].org, runs[r].asset,
                            IF e.pages > 0 THEN PagesText(e.pages)
                            ELSE <<"image">>)
             /\ Goto(e, "complete")
             /\ UNCHANGED <<runs, now>>
  /\ UNCHANGED <<deadletters, usage, reqs, registry, billing, source, hist>>

\* The last commit of a handler: fingerprint.py lines 99-105, ocr.py lines 400-409.
HandlerComplete(e) ==
  /\ e \in execs
  /\ resp' = NoResponse
  /\ e.pc = "complete"
  /\ LET r == e.run
     IN /\ runs' = [runs EXCEPT ![r].status = "completed", ![r].completed_at = now,
                      ![r].progress_message = IF runs[r].proc = OCR_TEXT
                                              THEN <<"completed">> ELSE @]
        /\ NoteCompletion(r)
  /\ now' = now + 1
  /\ Goto(e, "ret")
  /\ UNCHANGED <<results, deadletters, usage, index, reqs, registry, billing, source>>

\* run_processor_in_background lines 141-150 with record_usage lines 19-28:
\* the handler returned; the run and the tenant's OrgUsage row are loaded.
BgUsageRead(e) ==
  /\ e \in execs
  /\ resp' = NoResponse
  /\ e.kind = "bg"
  /\ e.pc = "ret"
  /\ Become(e, [e EXCEPT !.pc = "usage", !.seen = usage[runs[e.run].org]])
  /\ UNCHANGED <<runs, results, deadletters, usage, index, reqs, registry, billing, source,
                 now, hist>>

\* run_processor_in_background lines 150-157 with record_usage lines 30-42:
\* the commit of the usage row, then of the cost on the run.  A conflicting
\* INSERT raises in the commit and the except branch (lines 159-166) marks
\* the run failed.
BgReturn(e) ==
  /\ e \in execs
  /\ resp' = NoResponse
  /\ e.kind = "bg"
  /\ e.pc = "usage"
  /\ LET r == e.run
     IN IF UsageKeyConflict(e.seen, runs[r].org)
        THEN /\ runs' = [runs EXCEPT ![r].status = "failed",
                                     ![r].error_message = <<DUPLICATE_KEY_ERROR>>]
             /\ UNCHANGED usage
        ELSE /\ usage' = record_usage(e.seen, runs[r].org, estimate_cost(runs[r].proc))
             /\ runs' = [runs EXCEPT ![r].estimated_cost_cents =
                                        estimate_cost(runs[r].proc)]
  /\ Retire(e)
  /\ UNCHANGED <<results, deadletters, index, reqs, registry, billing, source, now, hist>>

\* A background task that swallows the handler's exception.
BgFailSilently(e) ==
  /\ e \in execs
  /\ resp' = NoResponse
  /\ e.kind = "bg"
  /\ e.pc = "raise"
  /\ Retire(e)
  /\ UNCHANGED <<runs, results, deadletters, usage, index, reqs, registry, billing, source, now,
                 hist>>

\* run_processor_in_background lines 159-166: the handler raised.
BgFail(e) ==
  /\ e \in execs
  /\ resp' = NoResponse
  /\ e.kind = "bg"
  /\ e.pc = "raise"
  /\ runs' = [runs EXCEPT ![e.run].status = "failed",
                          ![e.run].error_message = <<e.err>>]
  /\ Retire(e)
  /\ UNCHANGED <<results, deadletters, usage, index, reqs, registry, billing, source, now,
                 hist>>

\* dispatch_run returned to process_intelligence_run (worker.py lines 96-98):
\* the job is done.
JobReturn(e) ==
  /\ e \in execs
  /\ resp' = NoResponse
  /\ e.kind = "arq"
  /\ e.pc = "ret"
  /\ Retire(e)
  /\ UNCHANGED <<runs, results, deadletters, usage, index, reqs, registry, billing, source,
                 now, hist>>

\* dispatch_run lines 45-58: the handler raised; mark failed, commit, re-raise.
DispatchFail(e) ==
  /\ e \in execs
  /\ resp' = NoResponse
  /\ e.kind = "arq"
  /\ e.pc = "raise"
  /\ runs' = [runs EXCEPT ![e.run].status = "failed",
                          ![e.run].error_message = <<e.err>>,
                          ![e.run].completed_at = now]
  /\ now' = now + 1
  /\ Goto(e, "wexc")
  /\ UNCHANGED <<results, deadletters, usage, index, reqs, registry, billing, source, hist>>

\* worker.py lines 16-22 (deadletter_service.py lines 16-22 is the same
\* function); a null and an empty summary are both NoMsg.
_safe_error_summary(err, max_len) ==
  IF err = NoMsg THEN NoMsg
  ELSE LET s == strip(replace(replace(err, "\n", " "), "\r", " "))
       IN IF Len(s) <= max_len THEN s ELSE SubSeq(s, 1, max_len) \o <<ELLIPSIS>>

\* _write_deadletter_postgres lines 56-82: the UPDATE of the run and the
\* DeadletterEvent it adds; error is the text of the exception.
mark_dead_lettered(run, error, t) ==
  [run EXCEPT !.status = "failed",
              !.error_message = <<DEADLETTER_PREFIX>> \o error,
              !.completed_at = t,
              !.progress_message = <<"dead-lettered">>]

NewDeadletterEvent(run, r, job_try, error, t) ==
  [org |-> run.org, run |-> r, asset |-> run.asset, proc |-> run.proc,
   job_try |-> job_try, error_summary |-> _safe_error_summary(error, SUMMARY_MAX_LEN),
   error_raw |-> error, failed_at |-> t, requeued_at |-> NullTime]

\* worker.py lines 100-128 with _write_deadletter_postgres: the last try.
WorkerDeadletter(e) ==
  /\ e \in execs
  /\ resp' = NoResponse
  /\ e.kind = "arq"
  /\ e.pc = "wexc"
  /\ e.job_try >= MAX_TRIES
  /\ LET r == e.run
     IN /\ runs' = [runs EXCEPT ![r] = mark_dead_lettered(@, <<e.err>>, now)]
        /\ deadletters' = Append(deadletters,
                                 NewDeadletterEvent(runs[r], r, e.job_try, <<e.err>>, now))
  /\ now' = now + 1
  /\ Retire(e)
  /\ UNCHANGED <<results, usage, index, reqs, registry, billing, source, hist>>

\* worker.py lines 130-131: not the last try; re-raise and the queue delivers
\* the job again with job_try + 1.
WorkerRetry(e) ==
  /\ e \in execs
  /\ resp' = NoResponse
  /\ e.kind = "arq"
  /\ e.pc = "wexc"
  /\ e.job_try < MAX_TRIES
  /\ Become(e, [NewExec("arq", e.run, e.job) EXCEPT !.job_try = e.job_try + 1])
  /\ UNCHANGED <<runs, results, deadletters, usage, index, reqs, registry, billing, source,
                 now, hist>>

\* At-least-once delivery: the worker stops while the job runs (its coroutine
\* is cancelled, which no "except Exception" catches) and the queue delivers
\* the job again.
Redeliver(e) ==
  /\ e \in execs
  /\ resp' = NoResponse
  /\ e.kind = "arq"
  /\ e.pc \in {"start", "fetch", "page", "persist", "complete"}
  /\ e.job_try < MAX_TRIES
  /\ hist.redeliveries < hist.cap.redeliveries
  /\ hist' = [hist EXCEPT !.redeliveries = @ + 1]
  /\ Become(e, [NewExec("arq", e.run, e.job) EXCEPT !.job_try = e.job_try + 1])
  /\ UNCHANGED <<runs, results, deadletters, usage, index, reqs, registry, billing, source,
                 now>>


\* --------------------------------------------------- deadletter_service
\* A reset that leaves completed_at as the failure stamped it.
ResetKeepingCompletedAt(run) ==
  [run EXCEPT !.status = "pending", !.error_message = NoMsg,
              !.progress_current = 0, !.progress_total = NullInt,
              !.progress_message = <<"requeued">>,
              !.cancel_requested = FALSE, !.canceled_at = NullTime]

\* A reset that also starts the run's retry bookkeeping afresh.
ResetWithRetryCount(run) ==
  [run EXCEPT !.status = "pending", !.error_message = NoMsg,
              !.completed_at = NullTime,
              !.progress_current = 0, !.progress_total = NullInt,
              !.progress_message = <<"requeued">>,
              !.cancel_requested = FALSE, !.canceled_at = NullTime,
              !.retry_count = 0]

\* requeue_deadletter_run lines 107-120: the values of the reset UPDATE.
ResetForRequeue(run) ==
  [run EXCEPT !.status = "pending", !.error_message = NoMsg,
              !.completed_at = NullTime,
              !.progress_current = 0, !.progress_total = NullInt,
              !.progress_message = <<"requeued">>,
              !.cancel_requested = FALSE, !.canceled_at = NullTime]

\* A requeue that does not look at the run's tenant.
RequeueAnyTenant(org, r) ==
  /\ r \in RunIds
  /\ hist.requeues < hist.cap.requeues
  /\ Cardinality(execs) < hist.cap.execs
  /\ hist' = [hist EXCEPT !.requeues = @ + 1]
  /\ LET evs == {k \in DOMAIN deadletters :
                   /\ deadletters[k].run = r
                   /\ deadletters[k].requeued_at = NullTime}
     IN deadletters' = IF evs = {} THEN deadletters
                       ELSE [deadletters EXCEPT ![SetMax(evs)].requeued_at = now]
  /\ runs' = [runs EXCEPT ![r] = ResetForRequeue(@)]
  /\ execs' = execs \cup {NewExec("arq", r, hist.requeues + 1)}
  /\ now' = now + 1
  /\ resp' = Response("requeue", "ok", r)
  /\ UNCHANGED <<results, usage, index, reqs, registry, billing, source>>

\* requeue_deadletter_run lines 77-130.
requeue_deadletter_run(org, r) ==
  /\ r \in RunIds
  /\ IF runs[r].org /= org
     THEN /\ resp' = Response("requeue", "run_not_found_or_wrong_org", 0)
          /\ UNCHANGED <<runs, deadletters, execs, now, hist>>
     ELSE /\ hist.requeues < hist.cap.requeues
          /\ Cardinality(execs) < hist.cap.execs
          /\ hist' = [hist EXCEPT !.requeues = @ + 1]
          /\ LET evs == {k \in DOMAIN deadletters :
                           /\ deadletters[k].org = org
                           /\ deadletters[k].run = r
                           /\ deadletters[k].requeued_at = NullTime}
             IN deadletters' = IF evs = {} THEN deadletters
                               ELSE [deadletters EXCEPT ![SetMax(evs)].requeued_at = now]
          /\ runs' = [runs EXCEPT ![r] = ResetForRequeue(@)]
          /\ execs' = execs \cup {NewExec("arq", r, hist.requeues + 1)}
          /\ now' = now + 1
          /\ resp' = Response("requeue", "ok", r)
  /\ UNCHANGED <<results, usage, index, reqs, registry, billing, source>>

\* The events of the select at lines 149-161: of (org, asset, proc), not yet
\* requeued.
OpenDeadletters(org, asset, proc) ==
  {k \in DOMAIN deadletters :
     /\ deadletters[k].org = org /\ deadletters[k].asset = asset
     /\ deadletters[k].proc = proc /\ deadletters[k].requeued_at = NullTime}

\* requeue_latest_deadletter_for_asset lines 133-172.
requeue_latest_deadletter_for_asset(org, asset, processor_name) ==
  LET proc == normalize_processor_name(processor_name)
      evs == OpenDeadletters(org, asset, proc)
  IN IF proc = ""
     THEN /\ resp' = Response("requeue_latest", "invalid_processor_name", 0)
          /\ UNCHANGED <<runs, results, deadletters, usage, index, execs, reqs,
                         registry, billing, source, now, hist>>
     ELSE IF evs = {}
     THEN /\ resp' = Response("requeue_latest", "no_deadletter_found", 0)
          /\ UNCHANGED <<runs, results, deadletters, usage, index, execs, reqs,
                         registry, billing, source, now, hist>>
     ELSE requeue_deadletter_run(org, deadletters[SetMax(evs)].run)

\* ---------------------------------------------------- ocr_retry_service
\* The phrases classify_ocr_failure searches for that occur in a piece of an
\* error message once it is lower-cased.
Phrases(piece) ==
  CASE piece = DEPENDENCY_ERROR -> {"pytesseract", "tesseract", "import"}
    [] piece = PDF_DEPENDENCY_ERROR -> {"pdf2image", "requires", "poppler", "import"}
    [] piece = RASTERIZE_ERROR -> {"rasterize pdf", "failed to rasterize pdf", "failed"}
    [] piece = NOT_IMAGE_ERROR -> {"could not identify image"}
    [] piece = TIMEOUT_ERROR -> {"timed out"}
    [] OTHER -> {}

classify_ocr_failure(error_message) ==
  LET has(x) == \E i \in DOMAIN error_message : x \in Phrases(error_message[i])
      any(xs) == \E x \in xs : has(x)
  IN IF error_message = NoMsg THEN None
     ELSE IF has("pdf2image") /\ any({"requires", "import"}) THEN "pdf_dependency_missing"
     ELSE IF has("poppler") /\ any({"missing", "not found", "unable", "failed"})
          THEN "pdf_dependency_missing"
     ELSE IF any({"rasterize pdf", "failed to rasterize pdf"}) THEN "pdf_rasterize_failed"
     ELSE IF \/ has("tesseract") /\ any({"not found", "no such file", "is not installed"})
             \/ has("pytesseract") /\ has("import")
             \/ has("pillow") /\ has("import")
             \/ has("tesseract") /\ has("executable")
          THEN "dependency_missing"
     ELSE IF any({"does not support content-type", "does not support content type"})
          THEN "unsupported_content_type"
     ELSE IF any({"could not identify image", "identify image content", "not an image"})
          THEN "not_image"
     ELSE IF any({"timed out", "timeout", "connection", "dns", "name or service not known",
                  "failed to establish a new connection"})
          THEN "network_error"
     ELSE IF any({"404", "403", "401", "500", "502", "503", "504", "httperror"})
          THEN "http_error"
     ELSE "unknown"

_looks_like_dependency_missing(msg) ==
  classify_ocr_failure(msg) \in {"dependency_missing", "pdf_dependency_missing"}

Decision(should_retry, reason) == [should_retry |-> should_retry, reason |-> reason]

\* A decision that looks at the retry cap before the retry delay.
RetryCapBeforeDelay(org, asset, current_sig, since) ==
  LET latest == LatestRun(org, asset, OCR_TEXT)
  IN IF latest = 0 THEN Decision(FALSE, "no_ocr_run_exists")
     ELSE IF runs[latest].status /= "failed"
          THEN Decision(FALSE, "latest_ocr_status_" \o runs[latest].status)
     ELSE IF _looks_like_dependency_missing(runs[latest].error_message)
          THEN Decision(FALSE, "dependency_missing_no_retry")
     ELSE IF /\ Truthy(current_sig)
             /\ Truthy(runs[latest].input_fingerprint_signature)
             /\ current_sig /= runs[latest].input_fingerprint_signature
          THEN Decision(FALSE, "asset_changed_signature_mismatch")
     ELSE IF runs[latest].retry_count >= MAX_OCR_RETRIES_PER_SIGNATURE
          THEN Decision(FALSE, "retry_cap_reached")
     ELSE IF runs[latest].last_retry_at /= NullTime /\ since < MIN_RETRY_DELAY_SECONDS
          THEN Decision(FALSE, "retry_rate_limited")
     ELSE Decision(TRUE, "failed_retry_allowed")

\* should_auto_retry_ocr lines 96-181.  since: the seconds between the run's
\* last_retry_at and datetime.utcnow() at the call.
should_auto_retry_ocr(org, asset, current_sig, since) ==
  LET latest == LatestRun(org, asset, OCR_TEXT)
  IN IF latest = 0 THEN Decision(FALSE, "no_ocr_run_exists")
     ELSE IF runs[latest].status /= "failed"
          THEN Decision(FALSE, "latest_ocr_status_" \o runs[latest].status)
     ELSE IF _looks_like_dependency_missing(runs[latest].error_message)
          THEN Decision(FALSE, "dependency_missing_no_retry")
     ELSE IF /\ Truthy(current_sig)
             /\ Truthy(runs[latest].input_fingerprint_signature)
             /\ current_sig /= runs[latest].input_fingerprint_signature
          THEN Decision(FALSE, "asset_changed_signature_mismatch")
     ELSE IF runs[latest].last_retry_at /= NullTime /\ since < MIN_RETRY_DELAY_SECONDS
          THEN Decision(FALSE, "retry_rate_limited")
     ELSE IF runs[latest].retry_count >= MAX_OCR_RETRIES_PER_SIGNATURE
          THEN Decision(FALSE, "retry_cap_reached")
     ELSE Decision(TRUE, "failed_retry_allowed")

\* The delays a caller can find since the last retry: just below the minimum
\* and at it.
RetryDelays == {MIN_RETRY_DELAY_SECONDS - 1, MIN_RETRY_DELAY_SECONDS}

\* ------------------------------------------------ indexing_workflow_service
\* A whole enqueue_processor_run call as ensure_asset_indexing makes it:
\* bump is true for the auto-retry, which then increments retry_count on the
\* run the call returned (lines 128-132).
EnqueueWithin(org, asset, proc, retry, bump) ==
  IF proc \notin registry
  THEN /\ resp' = Response("ensure", "unknown_processor", 0)
       /\ UNCHANGED <<runs, execs, now>>
  ELSE IF enforce_quota(org) /= "ok"
  THEN /\ resp' = Response("ensure", enforce_quota(org), 0)
       /\ UNCHANGED <<runs, execs, now>>
  ELSE \E current_sig \in (IF proc /= FINGERPRINT
                           THEN get_latest_fingerprint_signature(org, asset)
                           ELSE {NoSig}) :
         LET reuse == ReuseDecision(org, asset, proc, FALSE, retry, current_sig)
             id == IF reuse /= 0 THEN reuse ELSE Len(runs) + 1
             base == IF reuse /= 0 THEN runs
                     ELSE Append(runs, NewRun(org, asset, proc, current_sig))
         IN /\ reuse = 0 => Len(runs) + AdmitsInFlight < hist.cap.runs /\ Cardinality(execs) < hist.cap.execs
            /\ runs' = IF bump
                       THEN [base EXCEPT ![id].retry_count = @ + 1,
                                         ![id].last_retry_at = now]
                       ELSE base
            /\ execs' = IF reuse /= 0 THEN execs ELSE execs \cup {NewExec("bg", id, 0)}
            /\ now' = IF bump THEN now + 1 ELSE now
            /\ resp' = Response("ensure", IF reuse /= 0 THEN "reused" ELSE "created", id)

\* ensure_asset_indexing lines 38-170.
ensure_asset_indexing(org, asset, since) ==
  /\ LET idx == IndexRow(org, asset)
         has_fp == Truthy(idx.sha256) \/ Truthy(idx.etag)
         has_ocr == idx.ocr_tsv /= NoTsv
     IN IF ~has_fp
        THEN EnqueueWithin(org, asset, FINGERPRINT, FALSE, FALSE)
        ELSE IF ~has_ocr
        THEN \E sig \in get_latest_fingerprint_signature(org, asset) :
               LET decision == should_auto_retry_ocr(org, asset, sig, since)
               IN IF decision.reason = "no_ocr_run_exists"
                  THEN EnqueueWithin(org, asset, OCR_TEXT, FALSE, FALSE)
                  ELSE IF decision.should_retry
                  THEN EnqueueWithin(org, asset, OCR_TEXT, TRUE, TRUE)
                  ELSE /\ resp' = Response("ensure", decision.reason, 0)
                       /\ UNCHANGED <<runs, execs, now>>
        ELSE /\ resp' = Response("ensure", "indexed", 0)
             /\ UNCHANGED <<runs, execs, now>>
  /\ UNCHANGED <<results, deadletters, usage, index, reqs, registry, billing, source, hist>>

\* ------------------------------------------- a store left by earlier work
\* Admission is also examined on stores that earlier activity has left: an
\* optional fingerprint run completed at time 1, an optional image-metadata
\* run L admitted at time 2 (so carrying the signature of that fingerprint
\* run, or none) in any status the shipped code gives it, and an optional
\* later fingerprint run completed at time 3, after the source may have
\* changed.  The tenant's usage row also counts its runs on other assets.
SeedSources == {<< >>} \cup {<<src>> : src \in Sources}

SeedStatuses == {"none", "pending", "running", "completed", "failed"}

\* Usage of the period from runs on other assets: none, one run below the
\* run quota, the run quota, and the cost quota reached by ocr-text runs.
OtherUsage ==
  { [runs |-> 0, cost |-> 0],
    [runs |-> MaxRunsPerMonth - 1, cost |-> MaxRunsPerMonth - 1],
    [runs |-> MaxRunsPerMonth, cost |-> MaxRunsPerMonth],
    [runs |-> MaxCostCentsPerMonth \div estimate_cost(OCR_TEXT),
     cost |-> MaxCostCentsPerMonth] }

\* A fingerprint run as its handler and background task leave it.
SeedFingerprintRun(org, asset, src, t) ==
  [NewRun(org, asset, FINGERPRINT, NoSig) EXCEPT
     !.status = "completed", !.completed_at = t,
     !.input_fingerprint_signature = _signature_from_fingerprint_data(FingerprintDataOf(src)),
     !.estimated_cost_cents = estimate_cost(FINGERPRINT)]

\* An image-metadata run in each status: as admitted, as the handler's first
\* commit leaves it, as its completion and the background task leave it, as
\* the background task's except branch leaves it.
SeedRun(org, asset, status, sig, t) ==
  LET run == NewRun(org, asset, IMAGE_METADATA, sig)
  IN CASE status = "pending" -> run
       [] status = "running" -> [run EXCEPT !.status = "running"]
       [] status = "completed" ->
            [run EXCEPT !.status = "completed", !.completed_at = t,
                        !.estimated_cost_cents = estimate_cost(IMAGE_METADATA)]
       [] OTHER -> [run EXCEPT !.status = "failed", !.error_message = <<FETCH_ERROR>>]

InitStore ==
  \E old \in SeedSources, st \in SeedStatuses, new \in SeedSources,
     other \in OtherUsage, org \in Owners, asset \in Assets :
    LET fp1 == IF old = << >> THEN << >>
               ELSE <<SeedFingerprintRun(org, asset, old[1], 1)>>
        sig == IF old = << >> THEN NoSig
               ELSE _signature_from_fingerprint_data(FingerprintDataOf(old[1]))
        latest == IF st = "none" THEN << >> ELSE <<SeedRun(org, asset, st, sig, 2)>>
        fp2 == IF new = << >> THEN << >>
               ELSE <<SeedFingerprintRun(org, asset, new[1], 3)>>
        idL == Len(fp1) + 1
        id2 == Len(fp1) + Len(latest) + 1
        res1 == IF old = << >> THEN << >>
                ELSE <<[run |-> 1, type |-> "fingerprint", data |-> FingerprintDataOf(old[1])]>>
        resL == IF st = "completed"
                THEN <<[run |-> idL, type |-> "image_metadata", data |-> NoData]>>
                ELSE << >>
        res2 == IF new = << >> THEN << >>
                ELSE <<[run |-> id2, type |-> "fingerprint", data |-> FingerprintDataOf(new[1])]>>
        done == Len(res1) + Len(resL) + Len(res2)
        indexed == IF new /= << >> THEN new ELSE old
        tasks == CASE st = "pending" -> {NewExec("bg", idL, 0)}
                   [] st = "running" -> {[NewExec("bg", idL, 0) EXCEPT !.pc = "fetch"]}
                   [] OTHER -> {}
    IN /\ runs = fp1 \o latest \o fp2
       /\ results = res1 \o resL \o res2
       /\ deadletters = << >>
       /\ usage = [o \in Orgs |->
                     IF o = org /\ other.runs + done > 0
                     THEN [present |-> TRUE,
                           intelligence_runs |-> other.runs + done,
                           estimated_cost_cents |-> other.cost + done]
                     ELSE NoUsage]
       /\ index = IF indexed = << >> THEN << >>
                  ELSE on_conflict_do_update(<< >>, org, asset,
                         FingerprintColumns(FingerprintDataOf(indexed[1]),
                                            IF new /= << >> THEN 3 ELSE 1))
       /\ execs = tasks
       /\ reqs = << >>
       /\ registry = OcrProcessors
       /\ organizations = InitialOrganizations
       /\ stripe_events = << >>
       /\ source \in (IF indexed /= << >> THEN {indexed[1]} ELSE Sources)
       /\ now = 4
       /\ resp = NoResponse
       /\ hist = [completions |-> [o \in Orgs |-> IF o = org THEN done ELSE 0],
                  completed_cost |-> [o \in Orgs |-> IF o = org THEN done ELSE 0],
                  requeues |-> 0, cancels |-> 0, redeliveries |-> 0, forced |-> FALSE,
                  cap |-> Workload(Len(fp1) + Len(latest) + Len(fp2) + MaxRuns,
                                   Cardinality(tasks) + MaxExecs, MaxReqs, 0, 0, 0)]

\* ---------------------------------------------------------------- Next
ApiStep ==
  \/ \E org \in Owners, asset \in Assets, proc \in ProcessorNames, force, retry \in BOOLEAN :
       AdmitRead(org, asset, proc, force, retry)
  \/ \E j \in DOMAIN reqs : AdmitCommit(j)
  \/ \E org \in Orgs, r \in RunIds : RequestCancelRead(org, r)
  \/ \E j \in DOMAIN reqs : RequestCancelWrite(j)
  \/ \E org \in Owners, asset \in Assets, name \in CancelNames, cascade \in BOOLEAN :
       CancelLatestRead(org, asset, name, cascade)
  \/ \E j \in DOMAIN reqs : CancelLatestWrite(j)
  \/ \E org \in Orgs, r \in RunIds : requeue_deadletter_run(org, r)
  \/ \E org \in Owners, asset \in Assets, since \in RetryDelays :
       ensure_asset_indexing(org, asset, since)

ExecStep ==
  \/ \E e \in execs : BgStart(e)
  \/ \E e \in execs : Dispatch(e)
  \/ \E e \in execs : JobHandlerStart(e)
  \/ \E e \in execs : HandlerRaises(e)
  \/ \E e \in execs : HandlerFetched(e)
  \/ \E e \in execs : HandlerPersist(e)
  \/ \E e \in execs : HandlerComplete(e)
  \/ \E e \in execs : BgUsageRead(e)
  \/ \E e \in execs : BgReturn(e)
  \/ \E e \in execs : BgFail(e)
  \/ \E e \in execs : JobReturn(e)
  \/ \E e \in execs : DispatchFail(e)
  \/ \E e \in execs : WorkerDeadletter(e)
  \/ \E e \in execs : WorkerRetry(e)

EnvStep == \E e \in execs : Redeliver(e)

Next == ApiStep \/ ExecStep \/ EnvStep

NextOcr ==
  \/ Next
  \/ \E e \in execs : OcrPage(e)
  \/ \E j \in DOMAIN reqs : CascadeWrite(j)

\* The code as shipped: PROCESSORS holds image-metadata and asset-fingerprint.
Spec == Init /\ [][Next]_vars

\* The same code with process_ocr_run registered as "ocr-text".
SpecOcr == InitOcr /\ [][NextOcr]_vars

\* Admission calls on a store at rest, with process_ocr_run registered.
NextStore ==
  \/ \E org \in Owners, asset \in Assets, proc \in ProcessorNames, force, retry \in BOOLEAN :
       AdmitRead(org, asset, proc, force, retry)
  \/ \E j \in DOMAIN reqs : AdmitCommit(j)

SpecStore == InitStore /\ [][NextStore]_vars

\* An execution that can take a step eventually takes one: the event loop
\* runs the background tasks Starlette scheduled, the ARQ worker polls its
\* queue and runs the jobs it finds, and a handler invocation returns or
\* raises.  Clients and worker stops are under no such obligation.
SpecLive == Init /\ [][Next]_vars /\ WF_vars(ExecStep)

\* ------------------------------------------- calls of the pure functions
\* A call of a function of the services that touches no run: its arguments
\* wait in reqs, its value comes back in resp.
Call(fn, args) == [op |-> fn, args |-> args]

Returns(fn, args, value) ==
  [op |-> fn, args |-> args, outcome |-> value, run |-> 0, direct |-> TRUE]

InitCalls(calls) ==
  /\ runs = << >>
  /\ results = << >>
  /\ deadletters = << >>
  /\ usage = [o \in Orgs |-> NoUsage]
  /\ index = << >>
  /\ execs = {}
  /\ \E c \in calls : reqs = <<c>>
  /\ registry = OcrProcessors
  /\ organizations = InitialOrganizations
  /\ stripe_events = << >>
  /\ source = InitialSource
  /\ now = 1
  /\ resp = NoResponse
  /\ hist = [completions |-> [o \in Orgs |-> 0],
             completed_cost |-> [o \in Orgs |-> 0],
             requeues |-> 0, cancels |-> 0, redeliveries |-> 0,
             forced |-> FALSE, cap |-> Workload(0, 0, 0, 0, 0, 0)]

\* The function returns: the call leaves reqs and its value is in resp.
Return(fn, value) ==
  /\ reqs /= << >>
  /\ reqs[1].op = fn
  /\ resp' = Returns(fn, reqs[1].args, value)
  /\ reqs' = << >>
  /\ UNCHANGED <<runs, results, deadletters, usage, index, execs, registry, billing, source,
                 now, hist>>

\* Fingerprint data as IntelligenceResult.data can hold it: each field null,
\* empty or set.
FingerprintDatas ==
  [sha256 : {None, "", "h1", "h2"}, etag : {None, "", "e1"},
   content_length : {NullInt, 0, 10}, last_modified : {None, "", "lm1"}]

InitSignature == InitCalls({Call("signature", d) : d \in FingerprintDatas})

DeriveSignature ==
  /\ reqs /= << >>
  /\ Return("signature", _signature_from_fingerprint_data(reqs[1].args))

SpecSignature == InitSignature /\ [][DeriveSignature]_vars

\* should_auto_retry_ocr called on a store holding an optional completed
\* fingerprint run and an optional ocr-text run, the latter as any row the
\* table admits: in each status, with or without an error message, with or
\* without retries recorded.
OcrErrorMessages ==
  { NoMsg, <<TIMEOUT_ERROR>>, <<DEPENDENCY_ERROR>>, <<RASTERIZE_ERROR>>,
    <<DEADLETTER_PREFIX, PDF_DEPENDENCY_ERROR>> }

OcrSeedRuns(org, asset) ==
  { [NewRun(org, asset, OCR_TEXT, sig) EXCEPT
       !.status = st, !.error_message = msg, !.retry_count = n,
       !.last_retry_at = IF retried THEN 1 ELSE NullTime] :
    sig \in {NoSig} \cup {_signature_from_fingerprint_data(FingerprintDataOf(src)) :
                            src \in Sources},
    st \in {"pending", "completed", "failed", "canceled"},
    msg \in OcrErrorMessages,
    n \in 0..(MAX_OCR_RETRIES_PER_SIGNATURE + 1),
    retried \in BOOLEAN }

InitRetry ==
  \E fp \in SeedSources, org \in Owners, asset \in Assets,
     since \in RetryDelays \cup {MIN_RETRY_DELAY_SECONDS + 1} :
   \E ocr \in {<< >>} \cup {<<run>> : run \in OcrSeedRuns(org, asset)} :
    /\ runs = (IF fp = << >> THEN << >> ELSE <<SeedFingerprintRun(org, asset, fp[1], 1)>>)
                \o ocr
    /\ results = IF fp = << >> THEN << >>
                 ELSE <<[run |-> 1, type |-> "fingerprint", data |-> FingerprintDataOf(fp[1])]>>
    /\ deadletters = << >>
    /\ usage = [o \in Orgs |->
                  IF o = org /\ fp /= << >>
                  THEN [present |-> TRUE, intelligence_runs |-> 1,
                        estimated_cost_cents |-> estimate_cost(FINGERPRINT)]
                  ELSE NoUsage]
    /\ index = IF fp = << >> THEN << >>
               ELSE on_conflict_do_update(<< >>, org, asset,
                      FingerprintColumns(FingerprintDataOf(fp[1]), 1))
    /\ execs = {}
    /\ reqs = <<Call("should_auto_retry_ocr", [org |-> org, asset |-> asset, since |-> since])>>
    /\ registry = OcrProcessors
    /\ organizations = InitialOrganizations
    /\ stripe_events = << >>
    /\ source \in (IF fp /= << >> THEN {fp[1]} ELSE {InitialSource})
    /\ now = 2
    /\ resp = NoResponse
    /\ hist = [completions |-> [o \in Orgs |-> IF o = org /\ fp /= << >> THEN 1 ELSE 0],
               completed_cost |-> [o \in Orgs |->
                                     IF o = org /\ fp /= << >>
                                     THEN estimate_cost(FINGERPRINT) ELSE 0],
               requeues |-> 0, cancels |-> 0, redeliveries |-> 0,
               forced |-> FALSE, cap |-> Workload(0, 0, 0, 0, 0, 0)]

DecideRetry ==
  /\ reqs /= << >>
  /\ \E current_sig \in get_latest_fingerprint_signature(reqs[1].args.org, reqs[1].args.asset) :
       Return("should_auto_retry_ocr",
              should_auto_retry_ocr(reqs[1].args.org, reqs[1].args.asset, current_sig,
                                    reqs[1].args.since))

SpecRetry == InitRetry /\ [][DecideRetry]_vars

\* ------------------------------------------------ two tenants' stores
\* Cancel and requeue called by either tenant on a store in which both
\* tenants hold runs of the same asset id: each a fingerprint run and
\* optionally an ocr-text run, either one pending, running or dead-lettered
\* by the queue worker.
TenantStatuses == {"pending", "running", "dead"}

TenantShapes ==
  {<<fp>> : fp \in TenantStatuses}
    \cup {<<fp, ocr>> : fp \in TenantStatuses, ocr \in TenantStatuses}

TenantRun(org, asset, proc, status, error) ==
  LET run == NewRun(org, asset, proc, NoSig)
  IN CASE status = "pending" -> run
       [] status = "running" -> [run EXCEPT !.status = "running"]
       [] OTHER -> mark_dead_lettered([run EXCEPT !.status = "running"], error, 1)

TenantRuns(org, asset, shape, error) ==
  [i \in DOMAIN shape |->
     TenantRun(org, asset, IF i = 1 THEN FINGERPRINT ELSE OCR_TEXT, shape[i], error)]

RECURSIVE EventsFor(_, _)
EventsFor(rs, r) ==
  IF r > Len(rs) THEN << >>
  ELSE (IF rs[r].status = "failed"
        THEN <<NewDeadletterEvent(rs[r], r, MAX_TRIES, Tail(rs[r].error_message), 1)>>
        ELSE << >>) \o EventsFor(rs, r + 1)

InitTenantsWith(errors) ==
  \E asset \in Assets, mine \in TenantShapes, theirs \in TenantShapes, error \in errors :
    LET rs == TenantRuns("t1", asset, mine, error)
                \o TenantRuns("t2", asset, theirs, <<FETCH_ERROR>>)
    IN /\ runs = rs
       /\ results = << >>
       /\ deadletters = EventsFor(rs, 1)
       /\ usage = [o \in Orgs |-> NoUsage]
       /\ index = << >>
       /\ execs = {NewExec("bg", r, 0) : r \in {i \in DOMAIN rs : rs[i].status = "pending"}}
                    \cup {[NewExec("bg", r, 0) EXCEPT !.pc = "fetch"] :
                            r \in {i \in DOMAIN rs : rs[i].status = "running"}}
       /\ reqs = << >>
       /\ registry = OcrProcessors
       /\ organizations = InitialOrganizations
       /\ stripe_events = << >>
       /\ source = InitialSource
       /\ now = 2
       /\ resp = NoResponse
       /\ hist = [completions |-> [o \in Orgs |-> 0],
                  completed_cost |-> [o \in Orgs |-> 0],
                  requeues |-> 0, cancels |-> 0, redeliveries |-> 0,
                  forced |-> FALSE,
                  cap |-> Workload(Len(rs), 2 * MaxRuns + 1, MaxReqs - 1, MaxCancels,
                                   MaxRequeues - 1, 0)]

InitTenants == InitTenantsWith({<<FETCH_ERROR>>})

NextTenants ==
  \/ \E org \in Orgs, r \in RunIds : RequestCancelRead(org, r)
  \/ \E j \in DOMAIN reqs : RequestCancelWrite(j)
  \/ \E org \in Orgs, asset \in Assets, name \in CancelNames, cascade \in BOOLEAN :
       CancelLatestRead(org, asset, name, cascade)
  \/ \E j \in DOMAIN reqs : CancelLatestWrite(j)
  \/ \E j \in DOMAIN reqs : CascadeWrite(j)
  \/ \E org \in Orgs, r \in RunIds : requeue_deadletter_run(org, r)
  \/ \E org \in Orgs, asset \in Assets, name \in CancelNames :
       requeue_latest_deadletter_for_asset(org, asset, name)

SpecTenants == InitTenants /\ [][NextTenants]_vars

\* ------------------------------------------------------- the read routes
\* api/deps.py get_current_org_id: the tenant of an API key, None for a key
\* that is unknown or inactive (the dependency then raises 401).
ApiKeys == {"k1", "k2", "bad"}

get_current_org_id(key) ==
  CASE key = "k1" -> "t1"
    [] key = "k2" -> "t2"
    [] OTHER -> None

HttpError(status, detail) == [http |-> status, detail |-> detail]

\* api/v1/router.py lines 5-18: the routers in the order they are included,
\* and those of them that declare GET /intelligence/runs/{run_id}.  The first
\* route registered for a path serves it.
Routers ==
  << "health", "assets", "intelligence", "intelligence_query", "intelligence_runs",
     "billing", "payments", "stripe_webhook", "intelligence_summary", "search",
     "related_assets", "index_status", "run_status", "cancel_run", "admin_deadletter" >>

RunStatusRouters == {"intelligence_runs", "run_status"}

ServingRouter ==
  Routers[CHOOSE i \in DOMAIN Routers :
            /\ Routers[i] \in RunStatusRouters
            /\ \A j \in 1..(i - 1) : Routers[j] \notin RunStatusRouters]

\* api/v1/intelligence_runs.py lines 13-34 on the table rs: no API key, no
\* tenant filter.
intelligence_runs_get_run_status(rs, run_id) ==
  IF run_id \notin DOMAIN rs THEN HttpError(404, "Run not found")
  ELSE [id |-> run_id, status |-> rs[run_id].status, processor |-> rs[run_id].proc,
        completed_at |-> rs[run_id].completed_at, error |-> rs[run_id].error_message]

\* The fields api/v1/run_status.py lines 43-67 returns for a run row.
RunStatusFields(run_id, run) ==
  [id |-> run_id, org_id |-> run.org, asset_id |-> run.asset,
   processor_name |-> run.proc, status |-> run.status,
   error_message |-> run.error_message, completed_at |-> run.completed_at,
   estimated_cost_cents |-> run.estimated_cost_cents,
   input_fingerprint_signature |-> run.input_fingerprint_signature,
   retry_count |-> run.retry_count, last_retry_at |-> run.last_retry_at,
   cancel |-> [cancel_requested |-> run.cancel_requested, canceled_at |-> run.canceled_at],
   progress |-> [current |-> run.progress_current, total |-> run.progress_total,
                 message |-> run.progress_message],
   partial_result |-> IF PartialRows(run_id) = {} THEN NoData
                      ELSE results[SetMax(PartialRows(run_id))].data]

\* api/v1/run_status.py lines 15-67 on the table rs.
run_status_get_run_status(rs, key, run_id) ==
  LET org_id == get_current_org_id(key)
  IN IF org_id = None THEN HttpError(401, "Invalid API key")
     ELSE IF run_id \notin DOMAIN rs \/ rs[run_id].org /= org_id
          THEN [error |-> "run_not_found"]
     ELSE RunStatusFields(run_id, rs[run_id])

\* What GET /intelligence/runs/{run_id} answers.
ServedRunStatus(rs, key, run_id) ==
  IF ServingRouter = "intelligence_runs" THEN intelligence_runs_get_run_status(rs, run_id)
  ELSE run_status_get_run_status(rs, key, run_id)

GetRunStatus(key, run_id) ==
  /\ resp' = Returns("get_run_status", [key |-> key, run_id |-> run_id],
                     ServedRunStatus(runs, key, run_id))
  /\ UNCHANGED <<runs, results, deadletters, usage, index, execs, reqs, registry, billing,
                 source, now, hist>>

\* deadletter_service.py lines 44-61: the item returned for an event.
DeadletterItem(k, ev) ==
  [id |-> k, run_id |-> ev.run, asset_id |-> ev.asset,
   processor_name |-> ev.proc, job_try |-> ev.job_try,
   failed_at |-> ev.failed_at, requeued_at |-> ev.requeued_at,
   error_summary |-> ev.error_summary]

\* list_deadletters_for_org lines 25-61 on the table evs, behind
\* admin_list_deadletters; the items as a set (their number stays under the
\* limit).
list_deadletters_for_org(evs, key) ==
  IF get_current_org_id(key) = None THEN HttpError(401, "Invalid API key")
  ELSE {DeadletterItem(k, evs[k]) :
          k \in {i \in DOMAIN evs : evs[i].org = get_current_org_id(key)}}

ListDeadletters(key) ==
  /\ resp' = Returns("list_deadletters", [key |-> key],
                     list_deadletters_for_org(deadletters, key))
  /\ UNCHANGED <<runs, results, deadletters, usage, index, execs, reqs, registry, billing,
                 source, now, hist>>

\* Raw errors longer than a summary, alike in all that a summary keeps.
LongError(last) ==
  [i \in 1..(SUMMARY_MAX_LEN + 1) |-> IF i <= SUMMARY_MAX_LEN THEN "a" ELSE last]

RawErrors == {<<FETCH_ERROR>>, LongError("x"), LongError("y")}

InitReads == InitTenantsWith(RawErrors)

NextReads ==
  \/ \E key \in ApiKeys, run_id \in 1..(Len(runs) + 1) : GetRunStatus(key, run_id)
  \/ \E key \in ApiKeys : ListDeadletters(key)

SpecReads == InitReads /\ [][NextReads]_vars

\* ------------------------------------------------- the error summary
\* _safe_error_summary called on error texts, a piece being one character:
\* every text of up to MaxShort characters, and texts whose length is around
\* max_len, plain or with white space or a line break at an end or inside.
MaxShort == 3

ErrorChars == {"a", " ", "\n", "\r"}

ShortTexts == UNION {[1..n -> ErrorChars] : n \in 0..MaxShort}

FilledText(n, c, at) == [i \in 1..n |-> IF i = at THEN c ELSE "a"]

LongTexts ==
  {FilledText(n, c, at) :
     n \in (SUMMARY_MAX_LEN - 1)..(SUMMARY_MAX_LEN + 2),
     c \in ErrorChars,
     at \in {1, SUMMARY_MAX_LEN - 1, SUMMARY_MAX_LEN}}

InitSummary == InitCalls({Call("_safe_error_summary", err) : err \in ShortTexts \cup LongTexts})

Summarize ==
  /\ reqs /= << >>
  /\ Return("_safe_error_summary", _safe_error_summary(reqs[1].args, SUMMARY_MAX_LEN))

SpecSummary == InitSummary /\ [][Summarize]_vars

\* ---------------------------------------------------- the search index
\* The two upserts called in any order for the assets of both tenants, each
\* one statement and one commit; at most MaxUpserts of them.
MaxUpserts == 3

IndexAssets == {"a1", "a2"}

OcrTexts ==
  {<<"image">>, <<" ", "image", "\n">>, [i \in 1..(PREVIEW_MAX_CHARS + 1) |-> "a"]}

InitIndex == InitCalls({Call("upserts", MaxUpserts)})

UpsertFingerprint(org, asset, data) ==
  /\ now <= MaxUpserts
  /\ index' = upsert_fingerprint_into_index(org, asset, data)
  /\ now' = now + 1
  /\ resp' = NoResponse
  /\ UNCHANGED <<runs, results, deadletters, usage, execs, reqs, registry, billing, source, hist>>

UpsertOcr(org, asset, text) ==
  /\ now <= MaxUpserts
  /\ index' = upsert_ocr_into_index(org, asset, text)
  /\ now' = now + 1
  /\ resp' = NoResponse
  /\ UNCHANGED <<runs, results, deadletters, usage, execs, reqs, registry, billing, source, hist>>

NextIndex ==
  \/ \E org \in Orgs, asset \in IndexAssets, src \in Sources :
       UpsertFingerprint(org, asset, FingerprintDataOf(src))
  \/ \E org \in Orgs, asset \in IndexAssets, text \in OcrTexts :
       UpsertOcr(org, asset, text)

SpecIndex == InitIndex /\ [][NextIndex]_vars

\* ------------------------------------------------------ related assets
\* Calls that read a seeded index and change nothing.
InitQuery(tables, calls) ==
  /\ runs = << >>
  /\ results = << >>
  /\ deadletters = << >>
  /\ usage = [o \in Orgs |-> NoUsage]
  /\ index \in tables
  /\ execs = {}
  /\ \E c \in calls : reqs = <<c>>
  /\ registry = OcrProcessors
  /\ organizations = InitialOrganizations
  /\ stripe_events = << >>
  /\ source = InitialSource
  /\ now = 1
  /\ resp = NoResponse
  /\ hist = [completions |-> [o \in Orgs |-> 0],
             completed_cost |-> [o \in Orgs |-> 0],
             requeues |-> 0, cancels |-> 0, redeliveries |-> 0,
             forced |-> FALSE, cap |-> Workload(0, 0, 0, 0, 0, 0)]

SCORE_NEAR_SIZE_MAX == 750

Abs(n) == IF n < 0 THEN 0 - n ELSE n

\* related_assets_service.py lines 26-32, in thousandths rounded down:
\* 0.75 * (1 - diff / 0.03) with diff = |other_len - src_len| / src_len.
_near_size_score(src_len, other_len) ==
  IF src_len <= 0 \/ other_len <= 0 THEN 0
  ELSE IF 100 * Abs(other_len - src_len) > 3 * src_len THEN 0
  ELSE (SCORE_NEAR_SIZE_MAX * (3 * src_len - 100 * Abs(other_len - src_len)))
         \div (3 * src_len)

\* A row of the index with the content_length column that the queries of
\* find_related_assets address; the model class declares no such column.
WithContentLength(row, n) ==
  [f \in DOMAIN row \cup {"content_length"} |->
     IF f = "content_length" THEN n ELSE row[f]]

\* Lines 273-274: int(src.content_length * 0.97) and int(... * 1.03).
NearSizeLow(src_len) == (src_len * 97) \div 100

NearSizeHigh(src_len) == (src_len * 103) \div 100

\* Lines 278-286: the WHERE clause of the near-size query.
NearRows(tbl, org, asset, src) ==
  {k \in DOMAIN tbl :
     /\ tbl[k].org = org
     /\ tbl[k].content_type = src.content_type
     /\ tbl[k].content_length /= NullInt
     /\ tbl[k].content_length >= NearSizeLow(src.content_length)
     /\ tbl[k].content_length <= NearSizeHigh(src.content_length)
     /\ tbl[k].asset /= asset}

\* Lines 287-288: the answers the query may give, closest size first and
\* limit_per_bucket rows at most; rows equally close come in any order.
NearSizeAnswers(tbl, org, asset, src, limit_per_bucket) ==
  LET rows == NearRows(tbl, org, asset, src)
      n == IF Cardinality(rows) < limit_per_bucket THEN Cardinality(rows)
           ELSE limit_per_bucket
      dist(k) == Abs(tbl[k].content_length - src.content_length)
  IN {b \in [1..n -> rows] :
        /\ \A i, j \in 1..n : i < j => b[i] /= b[j] /\ dist(b[i]) <= dist(b[j])
        /\ \A k \in rows : (\A i \in 1..n : b[i] /= k)
                            => \A i \in 1..n : dist(b[i]) <= dist(k)}

\* Lines 292-325: the bucket and the near_size candidates of an answer.
NearSizeBucket(tbl, src, answer) ==
  [near_duplicates_size |-> [i \in DOMAIN answer |-> tbl[answer[i]].asset],
   near_size |-> {<<tbl[answer[i]].asset,
                    _near_size_score(src.content_length, tbl[answer[i]].content_length)>> :
                    i \in {j \in DOMAIN answer :
                             _near_size_score(src.content_length,
                                              tbl[answer[j]].content_length) > 0}}]

\* find_related_assets lines 176-398 as far as the near-size bucket: what
\* the call may return.  Reading content_length of a row of the model class
\* raises AttributeError; a row with a null content_type or content_length
\* gets no near-size bucket.
find_related_assets(tbl, org, asset, limit_per_bucket) ==
  IF IndexRows(tbl, org, asset) = {} THEN {[note |-> "no_index_entry"]}
  ELSE LET src == tbl[CHOOSE k \in IndexRows(tbl, org, asset) : TRUE]
       IN IF "content_length" \notin DOMAIN src THEN {[raised |-> "AttributeError"]}
          ELSE IF ~Truthy(src.content_type) \/ src.content_length = NullInt
                  \/ src.content_length = 0
          THEN {[buckets |-> "none"]}
          ELSE {NearSizeBucket(tbl, src, b) :
                  b \in NearSizeAnswers(tbl, org, asset, src, limit_per_bucket)}

RelatedAssets == {"a1", "a2", "a3"}

ContentTypes == {"image", "scanned_pdf"}

ContentLengths == {34, 970, 990, 1000}

LimitsPerBucket == {1, 2}

\* The index after fingerprint upserts for the assets of one tenant and one
\* asset of the other.
SeededIndex(types) ==
  LET fp(ct) == FingerprintColumns([sha256 |-> None, etag |-> "e1", content_type |-> ct,
                                    last_modified |-> "lm1"], 1)
      t1 == on_conflict_do_update(<< >>, "t1", "a1", fp(types[1]))
      t2 == on_conflict_do_update(t1, "t1", "a2", fp(types[2]))
      t3 == on_conflict_do_update(t2, "t1", "a3", fp(types[3]))
  IN on_conflict_do_update(t3, "t2", "a1", fp(types[1]))

RelatedTables ==
  LET seeded == {SeededIndex(types) : types \in [1..3 -> ContentTypes]}
  IN seeded \cup
     {[k \in DOMAIN tbl |->
         WithContentLength(tbl[k], IF tbl[k].org = "t1" THEN lens[k] ELSE 1000)] :
        tbl \in seeded, lens \in [1..4 -> ContentLengths]}

InitRelated ==
  InitQuery(RelatedTables,
            {Call("find_related_assets",
                  [org |-> "t1", asset |-> a, limit_per_bucket |-> l]) :
               a \in RelatedAssets \cup {"a4"}, l \in LimitsPerBucket})

FindRelated ==
  /\ reqs /= << >>
  /\ \E out \in find_related_assets(index, reqs[1].args.org, reqs[1].args.asset,
                                    reqs[1].args.limit_per_bucket) :
       Return("find_related_assets", out)

SpecRelated == InitRelated /\ [][FindRelated]_vars

\* ---------------------------------------------------------- duplicates
\* search_service.py lines 67-72: the rows the statement selects; a filter
\* is added for each of sha256 and etag that is given and not empty.
DuplicateRows(tbl, org, sha256, etag) ==
  {k \in DOMAIN tbl :
     /\ tbl[k].org = org
     /\ Truthy(sha256) => tbl[k].sha256 = sha256
     /\ Truthy(etag) => tbl[k].etag = etag}

\* Lines 77-85: what is returned of a row.
DuplicateItem(row) ==
  [asset_id |-> row.asset, sha256 |-> row.sha256, etag |-> row.etag,
   content_type |-> row.content_type, updated_at |-> row.updated_at]

\* Line 74: the rows in the orders ORDER BY updated_at DESC LIMIT limit
\* allows; rows updated at the same time come in any order.
NewestFirst(tbl, rows, limit) ==
  LET n == IF Cardinality(rows) < limit THEN Cardinality(rows) ELSE limit
  IN {b \in [1..n -> rows] :
        /\ \A i, j \in 1..n :
             i < j => b[i] /= b[j] /\ tbl[b[i]].updated_at >= tbl[b[j]].updated_at
        /\ \A k \in rows : (\A i \in 1..n : b[i] /= k)
                            => \A i \in 1..n : tbl[b[i]].updated_at >= tbl[k].updated_at}

\* find_duplicates lines 56-86: the answers the call may return.
find_duplicates(tbl, org, sha256, etag, limit) ==
  IF ~Truthy(sha256) /\ ~Truthy(etag) THEN {<< >>}
  ELSE {[i \in DOMAIN b |-> DuplicateItem(tbl[b[i]])] :
          b \in NewestFirst(tbl, DuplicateRows(tbl, org, sha256, etag), limit)}

\* Fingerprint data of sources with an ETag (e1, e2) and without (the body
\* hashed to h2, h3).
DuplicateDatas ==
  {FingerprintDataOf(s) : s \in Sources}
  \cup {FingerprintDataOf([s EXCEPT !.etag = IF Truthy(s.etag) THEN "e2" ELSE s.etag,
                                    !.sha256 = "h3"]) : s \in Sources}

\* The index after four fingerprint upserts, one after the other: three
\* assets of a tenant, then one of the other tenant.
DuplicateTables ==
  {on_conflict_do_update(
     on_conflict_do_update(
       on_conflict_do_update(
         on_conflict_do_update(<< >>, "t1", "a1", FingerprintColumns(d[1], 1)),
         "t1", "a2", FingerprintColumns(d[2], 2)),
       "t1", "a3", FingerprintColumns(d[3], 3)),
     "t2", "a1", FingerprintColumns(d[4], 4)) : d \in [1..4 -> DuplicateDatas]}

DuplicateLimits == {1, 2, 3}

InitDuplicates ==
  InitQuery(DuplicateTables,
            {Call("find_duplicates", [org |-> o, sha256 |-> h, etag |-> e, limit |-> l]) :
               o \in Orgs, h \in {None, "", "h2"}, e \in {None, "e1"},
               l \in DuplicateLimits})

FindDuplicates ==
  /\ reqs /= << >>
  /\ \E out \in find_duplicates(index, reqs[1].args.org, reqs[1].args.sha256,
                                reqs[1].args.etag, reqs[1].args.limit) :
       Return("find_duplicates", out)

SpecDuplicates == InitDuplicates /\ [][FindDuplicates]_vars

\* ------------------------------------------------------- stripe webhook
PRICE_PRO == "price_1StePHCLBwfeKb63X4C6P3nU"

PRICE_TEAM == "price_1SteQeCLBwfeKb639PqgBLAp"

\* stripe_webhook.py lines 17-30.
_plan_from_price_id(price_id) ==
  IF ~Truthy(price_id) THEN "free"
  ELSE IF price_id = PRICE_PRO THEN "pro"
  ELSE IF price_id = PRICE_TEAM THEN "team"
  ELSE "free"

\* An organization row with the two columns the webhook reads and writes,
\* stripe_subscription_id and stripe_last_event_created; the model class
\* declares neither.
WithStripeColumns(row) ==
  [f \in DOMAIN row \cup {"stripe_subscription_id", "stripe_last_event_created"} |->
     IF f = "stripe_subscription_id" THEN None
     ELSE IF f = "stripe_last_event_created" THEN NullInt
     ELSE row[f]]

\* Lines 33-59: the organization of metadata.org_id when there is one, else
\* the one with the customer id; None when there is neither.
_find_org(customer_id, org_id_meta) ==
  IF Truthy(org_id_meta) /\ org_id_meta \in DOMAIN organizations THEN org_id_meta
  ELSE IF Truthy(customer_id)
          /\ \E o \in DOMAIN organizations : organizations[o].stripe_customer_id = customer_id
  THEN CHOOSE o \in DOMAIN organizations : organizations[o].stripe_customer_id = customer_id
  ELSE None

StripeEvent(id, type, created, customer, subscription, price, org_id) ==
  [id |-> id, type |-> type, created |-> created, customer |-> customer,
   subscription |-> subscription, price |-> price, org_id |-> org_id]

\* Lines 84-131: customer_id, new_plan, subscription_id and org_id_meta of an
\* event; handled is false for the event types the webhook ignores.
ExtractEvent(ev) ==
  LET fields(handled, customer, plan, subscription, org_id) ==
        [handled |-> handled, customer_id |-> customer, new_plan |-> plan,
         subscription_id |-> subscription, org_id_meta |-> org_id]
  IN CASE ev.type = "checkout.session.completed" ->
            fields(TRUE, ev.customer, None, ev.subscription, ev.org_id)
       [] ev.type \in {"customer.subscription.created", "customer.subscription.updated"} ->
            fields(TRUE, ev.customer, _plan_from_price_id(ev.price), ev.subscription, None)
       [] ev.type = "customer.subscription.deleted" ->
            fields(TRUE, ev.customer, "free", ev.subscription, None)
       [] ev.type \in {"invoice.paid", "invoice.payment_failed"} ->
            fields(TRUE, ev.customer, None, ev.subscription, None)
       [] OTHER -> fields(FALSE, None, None, None, None)

EventIds(evs) == {evs[k].stripe_event_id : k \in DOMAIN evs}

\* The events Stripe sends about the customer of tenant t1, one about an
\* unknown customer, one of a type the webhook ignores and one without a
\* customer.
StripeEventsSent ==
  { StripeEvent("evt_1", "customer.subscription.updated", 2, "cus_1", "sub_1", PRICE_PRO, None),
    StripeEvent("evt_2", "customer.subscription.updated", 3, "cus_1", "sub_1", PRICE_TEAM, None),
    StripeEvent("evt_3", "customer.subscription.deleted", 3, "cus_1", "sub_1", None, None),
    StripeEvent("evt_4", "invoice.paid", 1, "cus_1", "sub_2", None, None),
    StripeEvent("evt_5", "checkout.session.completed", 4, None, "sub_2", None, "t1"),
    StripeEvent("evt_6", "charge.succeeded", 4, "cus_1", None, None, None),
    StripeEvent("evt_7", "invoice.payment_failed", 2, "cus_9", "sub_9", None, None),
    StripeEvent("evt_8", "invoice.paid", 2, None, "sub_1", None, None) }

MaxDeliveries == 3

\* The organizations when the first event arrives: tenant t1 is the Stripe
\* customer cus_1; its row is of the declared class, or has the columns the
\* webhook addresses.
InitStripe ==
  /\ runs = << >>
  /\ results = << >>
  /\ deadletters = << >>
  /\ usage = [o \in Orgs |-> NoUsage]
  /\ index = << >>
  /\ execs = {}
  /\ reqs = << >>
  /\ registry = OcrProcessors
  /\ LET declared == [InitialOrganizations EXCEPT !["t1"] = NewOrganization("cus_1")]
     IN organizations \in {declared, [o \in Orgs |-> WithStripeColumns(declared[o])]}
  /\ stripe_events = << >>
  /\ source = InitialSource
  /\ now = 1
  /\ resp = NoResponse
  /\ hist = [completions |-> [o \in Orgs |-> 0],
             completed_cost |-> [o \in Orgs |-> 0],
             requeues |-> 0, cancels |-> 0, redeliveries |-> 0,
             forced |-> FALSE, cap |-> Workload(0, 0, 0, 0, 0, 0)]

\* Lines 67-150: the signature check, the extraction, and the INSERT of the
\* StripeEvent row with its flush.  The unique index on stripe_event_id
\* makes the INSERT wait for a transaction in flight that inserted the same
\* id, and raise IntegrityError once a row with the id is committed.
WebhookReceive(ev, valid) ==
  /\ now <= MaxDeliveries
  /\ now' = now + 1
  /\ \A j \in DOMAIN reqs : reqs[j].op = "webhook" => reqs[j].event.id /= ev.id
  /\ LET x == ExtractEvent(ev)
     IN IF ~valid
        THEN /\ resp' = Response("webhook", "invalid_signature", 0)
             /\ UNCHANGED reqs
        ELSE IF ~x.handled \/ (~Truthy(x.customer_id) /\ ~Truthy(x.org_id_meta))
        THEN /\ resp' = Response("webhook", "ignored", 0)
             /\ UNCHANGED reqs
        ELSE IF ev.id \in EventIds(stripe_events)
        THEN /\ resp' = Response("webhook", "idempotent", 0)
             /\ UNCHANGED reqs
        ELSE /\ reqs' = Append(reqs, [op |-> "webhook", pc |-> "find", event |-> ev,
                                      org |-> None, seen |-> NewOrganization(None)])
             /\ resp' = NoResponse
  /\ UNCHANGED <<runs, results, deadletters, usage, index, execs, registry, billing,
                 source, hist>>

NewStripeEvent(ev) ==
  [stripe_event_id |-> ev.id, event_type |-> ev.type, stripe_event_created |-> ev.created]

\* Lines 152-157: the SELECT of the organization; without one the
\* transaction commits the StripeEvent row alone.
WebhookFindOrg(j) ==
  /\ j \in DOMAIN reqs
  /\ reqs[j].op = "webhook"
  /\ reqs[j].pc = "find"
  /\ LET x == ExtractEvent(reqs[j].event)
         org == _find_org(x.customer_id, x.org_id_meta)
     IN IF org = None
        THEN /\ stripe_events' = Append(stripe_events, NewStripeEvent(reqs[j].event))
             /\ reqs' = RemoveAt(reqs, j)
             /\ resp' = Response("webhook", "org_not_found", 0)
        ELSE /\ reqs' = [reqs EXCEPT ![j].pc = "apply", ![j].org = org,
                                     ![j].seen = organizations[org]]
             /\ resp' = NoResponse
             /\ UNCHANGED stripe_events
  /\ UNCHANGED <<runs, results, deadletters, usage, index, execs, registry, organizations,
                 source, now, hist>>

\* Lines 161-171 on the loaded row: the attributes the event sets.
ApplyEvent(seen, ev) ==
  LET x == ExtractEvent(ev)
      last == IF seen.stripe_last_event_created = NullInt THEN 0
              ELSE seen.stripe_last_event_created
  IN IF ev.created > last
     THEN [seen EXCEPT
             !.stripe_subscription_id = IF Truthy(x.subscription_id) THEN x.subscription_id
                                        ELSE @,
             !.plan = IF x.new_plan /= None THEN x.new_plan ELSE @,
             !.stripe_last_event_created = ev.created]
     ELSE seen

\* Lines 159-182: the out-of-order check on the loaded row, then the commit,
\* which writes the attributes that changed on the loaded row and the
\* StripeEvent row.  Reading stripe_last_event_created of a row of the
\* declared class raises AttributeError: the transaction rolls back and the
\* webhook answers 500.
WebhookCommit(j) ==
  /\ j \in DOMAIN reqs
  /\ reqs[j].op = "webhook"
  /\ reqs[j].pc = "apply"
  /\ LET seen == reqs[j].seen
         org == reqs[j].org
     IN IF "stripe_last_event_created" \notin DOMAIN seen
        THEN /\ resp' = Response("webhook", "processing_failed", 0)
             /\ UNCHANGED billing
        ELSE LET new == ApplyEvent(seen, reqs[j].event)
             IN /\ organizations' =
                     [organizations EXCEPT ![org] =
                        [f \in DOMAIN @ |-> IF new[f] /= seen[f] THEN new[f] ELSE @[f]]]
                /\ stripe_events' = Append(stripe_events, NewStripeEvent(reqs[j].event))
                /\ resp' = Response("webhook", "applied", 0)
  /\ reqs' = RemoveAt(reqs, j)
  /\ UNCHANGED <<runs, results, deadletters, usage, index, execs, registry, source, now, hist>>

NextStripe ==
  \/ \E ev \in StripeEventsSent, valid \in BOOLEAN : WebhookReceive(ev, valid)
  \/ \E j \in DOMAIN reqs : WebhookFindOrg(j)
  \/ \E j \in DOMAIN reqs : WebhookCommit(j)

SpecStripe == InitStripe /\ [][NextStripe]_vars

\* ------------------------------------------------- the OCR auto-retry cap
\* The indexing workflow of one asset whose source, any of Sources, does not
\* change and whose OCR fails on every attempt: ensure_asset_indexing is
\* called again and again, at any spacing, also while a task is running.
MaxRetryRuns == 5

InitRetryCap ==
  InitWith(OcrProcessors, Sources, {Workload(MaxRetryRuns, MaxExecs, 0, 0, 0, 0)})

NextRetryCap ==
  \/ \E org \in Owners, asset \in Assets, since \in RetryDelays :
       ensure_asset_indexing(org, asset, since)
  \/ \E e \in execs : BgStart(e)
  \/ \E e \in execs : HandlerRaises(e)
  \/ \E e \in execs : runs[e.run].proc = FINGERPRINT /\ HandlerFetched(e)
  \/ \E e \in execs : HandlerPersist(e)
  \/ \E e \in execs : HandlerComplete(e)
  \/ \E e \in execs : BgUsageRead(e)
  \/ \E e \in execs : BgReturn(e)
  \/ \E e \in execs : BgFail(e)

SpecRetryCap == InitRetryCap /\ [][NextRetryCap]_vars

\* ------------------------------------------------- usage near the quota
\* Admissions and background tasks of a tenant whose OrgUsage row of the
\* period already counts runs on other assets: one below the run quota, at
\* it, or at the cost quota.
InitUsage ==
  /\ runs = << >>
  /\ results = << >>
  /\ deadletters = << >>
  /\ \E org \in Owners, other \in {u \in OtherUsage : u.runs > 0} :
       usage = [o \in Orgs |->
                  IF o = org
                  THEN [present |-> TRUE, intelligence_runs |-> other.runs,
                        estimated_cost_cents |-> other.cost]
                  ELSE NoUsage]
  /\ index = << >>
  /\ execs = {}
  /\ reqs = << >>
  /\ registry = ShippedProcessors
  /\ organizations = InitialOrganizations
  /\ stripe_events = << >>
  /\ source = InitialSource
  /\ now = 1
  /\ resp = NoResponse
  /\ hist = [completions |-> [o \in Orgs |-> 0],
             completed_cost |-> [o \in Orgs |-> 0],
             requeues |-> 0, cancels |-> 0, redeliveries |-> 0,
             forced |-> FALSE, cap |-> Workload(MaxRuns, MaxExecs, MaxReqs, 0, 0, 0)]

NextUsage ==
  \/ \E org \in Owners, asset \in Assets, proc \in ProcessorNames, force, retry \in BOOLEAN :
       AdmitRead(org, asset, proc, force, retry)
  \/ \E j \in DOMAIN reqs : AdmitCommit(j)
  \/ \E e \in execs : BgStart(e)
  \/ \E e \in execs : HandlerRaises(e)
  \/ \E e \in execs : HandlerFetched(e)
  \/ \E e \in execs : HandlerPersist(e)
  \/ \E e \in execs : HandlerComplete(e)
  \/ \E e \in execs : BgUsageRead(e)
  \/ \E e \in execs : BgReturn(e)
  \/ \E e \in execs : BgFail(e)

SpecUsage == InitUsage /\ [][NextUsage]_vars

\* ---------------------------------------------------------------- claims
\* C1: every run whose status is terminal (completed, failed, canceled) has a
\* non-null completed_at, whichever path wrote the terminal status.
C1_TerminalHasCompletedAt ==
  \A r \in RunIds : IsTerminal(runs[r].status) => runs[r].completed_at /= NullTime

\* The step is a requeue of run r by some caller.
RequeueStep(r) == \E org \in Orgs : requeue_deadletter_run(org, r)

\* C2: once a run is terminal, no step other than a requeue of it changes its
\* status, completed_at or error_message.
C2_TerminalIsFinal ==
  [][\A r \in RunIds :
       IsTerminal(runs[r].status) /\ ~RequeueStep(r)
         => /\ runs'[r].status = runs[r].status
            /\ runs'[r].completed_at = runs[r].completed_at
            /\ runs'[r].error_message = runs[r].error_message]_vars

\* C3: every run created by admission eventually reaches a terminal status,
\* when the executors are eventually scheduled and every handler invocation
\* returns or raises.
C3_EventuallyTerminal ==
  \A r \in 1..MaxRuns :
    (r \in RunIds) ~> (r \in RunIds /\ IsTerminal(runs[r].status))

C3_Witness ==
  \E r \in RunIds : runs[r].status = "completed" /\ execs = {} /\ hist.requeues > 0

\* C4: each transition of a run to completed causes exactly one usage
\* increment for the run's tenant (runs + 1, cost + the processor's price),
\* whichever executor ran it, and nothing else increments usage: once every
\* execution has ended, the tenant's usage row counts the completions.
C4_UsagePerCompletion ==
  execs = {} =>
    \A o \in Orgs : /\ usage[o].intelligence_runs = hist.completions[o]
                    /\ usage[o].estimated_cost_cents = hist.completed_cost[o]

Active(org, asset, proc) ==
  {r \in RunIds : /\ runs[r].org = org /\ runs[r].asset = asset /\ runs[r].proc = proc
                  /\ runs[r].status \in {"pending", "running"}}

\* C6: as long as no call with force=true has created a run, at most one run
\* of a (tenant, asset, processor) is pending or running at any time.
C6_OneActiveRunPerKey ==
  ~hist.forced =>
    \A org \in Orgs, asset \in Assets, proc \in ProcessorNames :
      Cardinality(Active(org, asset, proc)) <= 1

\* C7: a call enqueue(force=false, retry=false) that directly follows an
\* enqueue call for the same (tenant, asset, processor) which itself ran
\* without interleaving, with no step in between, returns the id that call
\* returned and creates no run: of N consecutive non-interleaved such calls
\* only the first can create a run, and all return the same id.
C7_ConsecutiveEnqueueIdempotent ==
  [][\A org \in Orgs, asset \in Assets, proc \in ProcessorNames :
       /\ resp.op = "enqueue"
       /\ resp.outcome \in {"created", "reused"}
       /\ resp.direct
       /\ runs[resp.run].org = org
       /\ runs[resp.run].asset = asset
       /\ runs[resp.run].proc = proc
       /\ AdmitRead(org, asset, proc, FALSE, FALSE)
       => /\ resp' = Response("enqueue", "reused", resp.run)
          /\ runs' = runs
          /\ reqs' = reqs
          /\ execs' = execs]_vars

C7_Witness ==
  /\ resp = Response("enqueue", "reused", 1)
  /\ runs[1].status = "pending"
  /\ Len(runs) = 1

\* C8: a queue job whose handler raised is delivered again and its handler is
\* executed again on each attempt up to MAX_TRIES, after which the run is
\* dead-lettered: a job delivered again (job_try > 1) to a run that
\* dispatch_run left failed when the handler raised invokes the handler.
C8_RedeliveryRunsHandlerAgain ==
  [][\A e \in execs :
       /\ e.job_try > 1
       /\ runs[e.run].status = "failed"
       /\ runs[e.run].error_message = <<FETCH_ERROR>>
       /\ runs[e.run].completed_at /= NullTime
       /\ Dispatch(e)
       => [e EXCEPT !.pc = "start"] \in execs']_vars

\* The DeadletterEvent rows of (tenant, run).
EventsOf(table, org, r) == {k \in DOMAIN table : table[k].org = org /\ table[k].run = r}

DeadLettered(r) ==
  /\ runs[r].status = "failed"
  /\ runs[r].error_message /= NoMsg
  /\ runs[r].error_message[1] = DEADLETTER_PREFIX

\* The un-requeued DeadletterEvent rows of (tenant, run).
OpenEvents(org, r) ==
  {k \in EventsOf(deadletters, org, r) : deadletters[k].requeued_at = NullTime}

NotStarted(r) ==
  /\ r \in RunIds
  /\ runs[r].status = "pending"
  /\ \E e \in execs : e.run = r /\ e.kind = "bg" /\ e.pc = "queued"

\* C11: a run of a registered processor whose cancel_requested is set before
\* its handler is called (so before every checkpoint) eventually reaches
\* status canceled, unless its fetch raises (failed) or a requeue clears the
\* request; it does not end completed with the request still set.
C11_CancelRequestedLeadsToCanceled ==
  \A r \in 1..MaxRuns :
    (NotStarted(r) /\ runs[r].cancel_requested)
      ~> (r \in RunIds /\ (\/ runs[r].status \in {"canceled", "failed"}
                            \/ ~runs[r].cancel_requested))

\* This step is the return of a call request_cancel_latest_run_for_asset(
\* org, asset, a name of asset-fingerprint, cascade=true).
CascadeCancelReturns(org, asset) ==
  /\ resp'.op = "cancel_latest"
  /\ \/ \E name \in CancelNames :
          /\ normalize_processor_name(name) = FINGERPRINT
          /\ CancelLatestRead(org, asset, name, TRUE)
     \/ \E j \in DOMAIN reqs :
          /\ reqs[j].org = org /\ reqs[j].asset = asset
          /\ reqs[j].proc = FINGERPRINT /\ reqs[j].cascade
          /\ CancelLatestWrite(j) \/ CascadeWrite(j)

C13_CancelNeverModifiesTerminalRun ==
  [][\A j \in DOMAIN reqs :
       /\ RequestCancelWrite(j)
       /\ \/ IsTerminal(runs[reqs[j].run].status)
          \/ runs[reqs[j].run].cancel_requested
       => runs' = runs]_vars

\* Run r is the only ocr-text run of its asset and only its background task
\* has executed it (no requeue has put a queue job beside it).
SoleOcrExecution(r) ==
  /\ hist.requeues = 0
  /\ \A q \in RunIds :
       runs[q].org = runs[r].org /\ runs[q].asset = runs[r].asset
         /\ runs[q].proc = OCR_TEXT => q = r

FinalResultTypes == {"fingerprint", "image_metadata", "ocr_text"}

\* C15: in every committed state, a Result row of a type other than
\* ocr_text_partial belongs to a run whose status is completed.
C15_FinalResultOnlyForCompletedRun ==
  \A k \in DOMAIN results :
    results[k].type \in FinalResultTypes => runs[results[k].run].status = "completed"

\* The values enqueue_processor_run can compute for current_sig (lines 62-70).
CurrentSignatures(org, asset, proc) ==
  IF proc /= FINGERPRINT THEN get_latest_fingerprint_signature(org, asset) ELSE {NoSig}

\* The call passes the checks that precede the reuse decision (lines 54-60).
Admissible(org, proc) == proc \in registry /\ enforce_quota(org) = "ok"

\* C16: enqueue(force=false, retry=false), past the registry and quota
\* checks, whose latest run L of the
\* (tenant, asset, processor) is failed returns L and creates no run,
\* whatever the current signature and L's signature are.
C16_FailedLatestIsReused ==
  [][\A org \in Orgs, asset \in Assets, proc \in ProcessorNames :
       LET latest == LatestRun(org, asset, proc)
       IN /\ Admissible(org, proc)
          /\ latest /= 0
          /\ runs[latest].status = "failed"
          /\ AdmitRead(org, asset, proc, FALSE, FALSE)
          => /\ resp' = Response("enqueue", "reused", latest)
             /\ reqs' = reqs]_vars

\* C17: enqueue(force=false), past the registry and quota checks, whose
\* latest run L is pending, running or
\* completed returns L and creates no run when the current signature equals
\* L's signature or one of the two is unknown.
C17_ReuseOnMatchOrUnknown ==
  [][\A org \in Orgs, asset \in Assets, proc \in ProcessorNames, retry \in BOOLEAN :
       LET latest == LatestRun(org, asset, proc)
       IN /\ Admissible(org, proc)
          /\ latest /= 0
          /\ runs[latest].status \in {"pending", "running", "completed"}
          /\ \A sig \in CurrentSignatures(org, asset, proc) :
               \/ sig = runs[latest].input_fingerprint_signature
               \/ sig = NoSig
               \/ runs[latest].input_fingerprint_signature = NoSig
          /\ AdmitRead(org, asset, proc, FALSE, retry)
          => /\ resp' = Response("enqueue", "reused", latest)
             /\ reqs' = reqs]_vars

\* The current signature and the signature of run `latest' are both known
\* and differ.
SignatureMismatch(org, asset, proc, latest) ==
  \A sig \in CurrentSignatures(org, asset, proc) :
    /\ sig /= NoSig
    /\ runs[latest].input_fingerprint_signature /= NoSig
    /\ sig /= runs[latest].input_fingerprint_signature

\* C18: enqueue(force=false) of a non-fingerprint processor, past the
\* registry and quota checks, whose latest run L is pending, running or completed, with both signatures known and
\* different, goes on to create a run carrying the current signature, and its
\* commit inserts that run as a new pending run, different from L, and
\* returns it.
C18_MismatchCreatesNewRun ==
  [][/\ \A org \in Orgs, asset \in Assets, proc \in ProcessorNames \ {FINGERPRINT},
          retry \in BOOLEAN :
          LET latest == LatestRun(org, asset, proc)
          IN /\ Admissible(org, proc)
             /\ latest /= 0
             /\ runs[latest].status \in {"pending", "running", "completed"}
             /\ SignatureMismatch(org, asset, proc, latest)
             /\ AdmitRead(org, asset, proc, FALSE, retry)
             => \E sig \in CurrentSignatures(org, asset, proc) :
                  /\ reqs' = Append(reqs, NewReq("admit", org, asset, proc, 0, sig, FALSE))
                  /\ runs' = runs
     /\ \A j \in DOMAIN reqs :
          AdmitCommit(j) /\ reqs[j].proc /= FINGERPRINT
          => /\ Len(runs') = Len(runs) + 1
             /\ \A r \in RunIds : runs'[r] = runs[r]
             /\ runs'[Len(runs')].status = "pending"
             /\ runs'[Len(runs')].proc = reqs[j].proc
             /\ runs'[Len(runs')].input_fingerprint_signature = reqs[j].sig
             /\ resp'.outcome = "created"
             /\ resp'.run = Len(runs')]_vars

C18_Witness ==
  \E latest \in RunIds :
    /\ resp = Response("enqueue", "created", Len(runs))
    /\ latest < Len(runs)
    /\ runs[latest].proc = IMAGE_METADATA
    /\ runs[Len(runs)].proc = IMAGE_METADATA
    /\ runs[latest].status = "completed"
    /\ runs[Len(runs)].status = "pending"
    /\ runs[latest].input_fingerprint_signature /= NoSig
    /\ runs[Len(runs)].input_fingerprint_signature /= NoSig
    /\ runs[Len(runs)].input_fingerprint_signature
         /= runs[latest].input_fingerprint_signature
    /\ runs[Len(runs)].input_fingerprint_signature
         \in get_latest_fingerprint_signature(runs[latest].org, runs[latest].asset)
    /\ ~hist.forced

\* C19: for a registered processor, when the tenant's usage row has
\* intelligence_runs >= the plan's run limit, enqueue fails with
\* quota_runs_exceeded; otherwise when estimated_cost_cents >= the cost
\* limit it fails with quota_cost_exceeded.  In both cases no run is created,
\* no run is modified and no task is scheduled, whatever run could have been
\* reused and whatever force and retry are.
C19_QuotaRejectsBeforeReuse ==
  [][\A org \in Orgs, asset \in Assets, proc \in registry, force, retry \in BOOLEAN :
       /\ usage[org].present
       /\ \/ usage[org].intelligence_runs >= MaxRunsPerMonth
          \/ usage[org].estimated_cost_cents >= MaxCostCentsPerMonth
       /\ AdmitRead(org, asset, proc, force, retry)
       => /\ resp' = Response("enqueue",
                              IF usage[org].intelligence_runs >= MaxRunsPerMonth
                              THEN "quota_runs_exceeded" ELSE "quota_cost_exceeded", 0)
          /\ runs' = runs
          /\ reqs' = reqs
          /\ execs' = execs]_vars

C19_Witness ==
  /\ resp = Response("enqueue", "quota_cost_exceeded", 0)
  /\ \E org \in Orgs :
       /\ usage[org].intelligence_runs < MaxRunsPerMonth
       /\ usage[org].estimated_cost_cents >= MaxCostCentsPerMonth
       /\ \E r \in RunIds : /\ runs[r].org = org /\ runs[r].status = "pending"
                            /\ r = LatestRun(org, runs[r].asset, runs[r].proc)

\* C20: enqueue admits asset-fingerprint, image-metadata and ocr-text: with
\* quota available, a request for any of them is not rejected as unknown.
C20_ThreeProcessorsAdmitted ==
  [][\A org \in Orgs, asset \in Assets, proc \in {FINGERPRINT, IMAGE_METADATA, OCR_TEXT},
        force, retry \in BOOLEAN :
       enforce_quota(org) = "ok" /\ AdmitRead(org, asset, proc, force, retry)
         => resp'.outcome /= "unknown_processor"]_vars

\* C21: a run of a non-fingerprint processor inserted while a fingerprint
\* result of a completed run exists for its tenant and asset carries the
\* signature derived from the most recently completed of them; a run of
\* asset-fingerprint is inserted with a null signature.
C21_SignatureSetAtAdmission ==
  [][Len(runs') = Len(runs) + 1 =>
       LET new == runs'[Len(runs')]
       IN IF new.proc = FINGERPRINT
          THEN new.input_fingerprint_signature = NoSig
          ELSE LatestFingerprintRows(new.org, new.asset) /= {} =>
                 new.input_fingerprint_signature
                   \in get_latest_fingerprint_signature(new.org, new.asset)]_vars

\* C22: the signature of fingerprint data is "sha256:<sha256>" when sha256 is
\* present, else "etag:<etag>" when etag is present, else
\* "lenlm:<content_length>:<last_modified>" when content_length is not null and
\* last_modified is present, else null; a field is present when it is neither
\* null nor empty.
C22_SignatureDerivation ==
  resp.op = "signature" =>
    LET d == resp.args
        sig == resp.outcome
    IN /\ Truthy(d.sha256) => sig = "sha256:" \o d.sha256
       /\ ~Truthy(d.sha256) /\ Truthy(d.etag) => sig = "etag:" \o d.etag
       /\ ~Truthy(d.sha256) /\ ~Truthy(d.etag)
            /\ d.content_length /= NullInt /\ Truthy(d.last_modified)
            => sig = "lenlm:" \o ToString(d.content_length) \o ":" \o d.last_modified
       /\ ~Truthy(d.sha256) /\ ~Truthy(d.etag)
            /\ (d.content_length = NullInt \/ ~Truthy(d.last_modified))
            => sig = NoSig

C22_Witness ==
  /\ resp.op = "signature"
  /\ resp.args.sha256 = "" /\ resp.args.etag = None
  /\ resp.outcome = "lenlm:0:lm1"

\* C23: should_auto_retry_ocr answers should_retry exactly when the latest
\* ocr-text run of the asset is failed, its failure category is neither
\* dependency_missing nor pdf_dependency_missing, the current signature equals
\* the run's or one of the two is null, last_retry_at is null or at least 60
\* seconds old, and retry_count is below 2; otherwise the reason names the
\* first of these conditions, in this order, that fails.
C23_AutoRetryDecision ==
  resp.op = "should_auto_retry_ocr" =>
    LET latest == LatestRun(resp.args.org, resp.args.asset, OCR_TEXT)
        run == runs[latest]
        sigs == get_latest_fingerprint_signature(resp.args.org, resp.args.asset)
        failed == run.status = "failed"
        retryable == classify_ocr_failure(run.error_message)
                       \notin {"dependency_missing", "pdf_dependency_missing"}
        same == \E cur \in sigs : \/ cur = None
                                  \/ run.input_fingerprint_signature = None
                                  \/ cur = run.input_fingerprint_signature
        waited == run.last_retry_at = NullTime \/ resp.args.since >= 60
        below == run.retry_count < 2
        d == resp.outcome
    IN IF latest = 0 THEN d = Decision(FALSE, "no_ocr_run_exists")
       ELSE /\ d.should_retry <=> (failed /\ retryable /\ same /\ waited /\ below)
            /\ ~failed => d.reason = "latest_ocr_status_" \o run.status
            /\ failed /\ ~retryable => d.reason = "dependency_missing_no_retry"
            /\ failed /\ retryable /\ ~same
                 => d.reason = "asset_changed_signature_mismatch"
            /\ failed /\ retryable /\ same /\ ~waited => d.reason = "retry_rate_limited"
            /\ failed /\ retryable /\ same /\ waited /\ ~below
                 => d.reason = "retry_cap_reached"

\* A failed run past both the delay and the cap is refused for the delay;
\* one exactly at the minimum delay and below the cap is retried.
C23_Witness ==
  /\ resp.op = "should_auto_retry_ocr"
  /\ LatestRun(resp.args.org, resp.args.asset, OCR_TEXT) /= 0
  /\ LET run == runs[LatestRun(resp.args.org, resp.args.asset, OCR_TEXT)]
     IN /\ run.status = "failed"
        /\ run.last_retry_at /= NullTime
        /\ run.retry_count = MAX_OCR_RETRIES_PER_SIGNATURE
        /\ resp.args.since = MIN_RETRY_DELAY_SECONDS - 1
        /\ resp.outcome = Decision(FALSE, "retry_rate_limited")

\* What a call of one tenant must leave alone: the runs and DeadletterEvents
\* of the other tenants, and the queue as far as their runs go.
LeavesOthersAlone(org) ==
  /\ Len(runs') = Len(runs)
  /\ Len(deadletters') = Len(deadletters)
  /\ \A r \in RunIds : runs[r].org /= org => runs'[r] = runs[r]
  /\ \A k \in DOMAIN deadletters :
       deadletters[k].org /= org => deadletters'[k] = deadletters[k]
  /\ \A e \in execs' \ execs : runs[e.run].org = org

\* C24: a cancel (request_cancel_run, request_cancel_latest_run_for_asset and
\* its cascade) or a requeue (requeue_deadletter_run,
\* requeue_latest_deadletter_for_asset) called by one tenant changes no field
\* of a run or DeadletterEvent of another tenant and enqueues no job for such
\* a run; aimed at another tenant's run it reports not found.
C24_CancelAndRequeueStayInTenant ==
  [][\A org \in Orgs :
       /\ \A r \in RunIds :
            /\ RequestCancelRead(org, r) =>
                 /\ LeavesOthersAlone(org)
                 /\ runs[r].org /= org => resp' = Response("cancel", "run_not_found", 0)
            /\ requeue_deadletter_run(org, r) =>
                 /\ LeavesOthersAlone(org)
                 /\ runs[r].org /= org
                      => resp' = Response("requeue", "run_not_found_or_wrong_org", 0)
       /\ \A asset \in Assets, name \in CancelNames :
            /\ \A cascade \in BOOLEAN :
                 CancelLatestRead(org, asset, name, cascade) =>
                   /\ LeavesOthersAlone(org)
                   /\ (\A r \in RunIds : runs[r].org /= org)
                        => resp'.outcome \in {"invalid_processor_name", "no_active_run_found"}
            /\ requeue_latest_deadletter_for_asset(org, asset, name) =>
                 /\ LeavesOthersAlone(org)
                 /\ (\A k \in DOMAIN deadletters : deadletters[k].org /= org)
                      => resp'.outcome \in {"invalid_processor_name", "no_deadletter_found"}
       /\ \A j \in DOMAIN reqs :
            /\ reqs[j].org = org
            /\ RequestCancelWrite(j) \/ CancelLatestWrite(j) \/ CascadeWrite(j)
            => LeavesOthersAlone(org)]_vars

\* Tenant t2 has asked to requeue a dead-lettered run of t1 that is still
\* dead-lettered, its event not requeued.
C24_Witness ==
  /\ resp = Response("requeue", "run_not_found_or_wrong_org", 0)
  /\ \E k \in DOMAIN deadletters :
       /\ deadletters[k].requeued_at = NullTime
       /\ DeadLettered(deadletters[k].run)
  /\ \E r \in RunIds : runs[r].org = "t2" /\ runs[r].cancel_requested

\* C25: GET /intelligence/runs/{run_id}, as the router serves it, returns a
\* run's fields only to a caller whose API key resolves to the run's tenant;
\* a caller of another tenant or without a valid key gets what the same call
\* gets for a run that does not exist.
C25_RunStatusOnlyForOwnTenant ==
  resp.op = "get_run_status" =>
    LET key == resp.args.key
        run_id == resp.args.run_id
    IN (run_id \in RunIds /\ get_current_org_id(key) /= runs[run_id].org)
         => resp.outcome = ServedRunStatus(runs, key, Len(runs) + 1)

\* The tables as the dead-letter write of run r would have left them had the
\* raw error been raw.
RunsWithRawError(r, raw) ==
  [runs EXCEPT ![r] = mark_dead_lettered(@, raw, runs[r].completed_at)]

EventsWithRawError(r, raw) ==
  [k \in DOMAIN deadletters |->
     IF deadletters[k].run = r /\ deadletters[k].requeued_at = NullTime
     THEN [deadletters[k] EXCEPT !.error_raw = raw,
                                 !.error_summary = _safe_error_summary(raw, SUMMARY_MAX_LEN)]
     ELSE deadletters[k]]

\* C26: the raw error of a dead-lettered failure influences no response of
\* the dead-letter listing or of the run-status read: had the raw error been
\* another one of which error_summary keeps the same, each response would be
\* the same.
C26_RawErrorNotVisible ==
  \A r \in RunIds, raw \in RawErrors :
    /\ DeadLettered(r)
    /\ _safe_error_summary(raw, SUMMARY_MAX_LEN)
         = _safe_error_summary(Tail(runs[r].error_message), SUMMARY_MAX_LEN)
    => /\ resp.op = "get_run_status"
            => resp.outcome
                 = ServedRunStatus(RunsWithRawError(r, raw), resp.args.key, resp.args.run_id)
       /\ resp.op = "list_deadletters"
            => resp.outcome
                 = list_deadletters_for_org(EventsWithRawError(r, raw), resp.args.key)

\* C27: the error_summary kept for a dead-lettered failure has at most 200
\* characters and holds neither a newline nor a carriage return, whatever the
\* error text.
C27_SummaryShortAndOneLine ==
  resp.op = "_safe_error_summary" =>
    /\ Len(resp.outcome) <= 200
    /\ \A i \in DOMAIN resp.outcome : resp.outcome[i] \notin {"\n", "\r"}

\* The rows of the index without their updated_at.
IndexContent(tbl) == [k \in DOMAIN tbl |-> [tbl[k] EXCEPT !.updated_at = NullTime]]

\* C28: after any sequence of fingerprint and OCR upserts the index holds at
\* most one row for each (tenant, asset), and the upsert just applied, applied
\* once more, leaves every row as it is apart from updated_at.
C28_IndexUniqueAndIdempotent ==
  [][/\ \A org \in Orgs, asset \in IndexAssets :
          Cardinality(IndexRows(index', org, asset)) <= 1
     /\ \A org \in Orgs, asset \in IndexAssets :
          /\ \A src \in Sources :
               UpsertFingerprint(org, asset, FingerprintDataOf(src))
               => IndexContent(upsert_fingerprint_into_index(org, asset,
                                                           FingerprintDataOf(src))')
                    = IndexContent(index')
          /\ \A text \in OcrTexts :
               UpsertOcr(org, asset, text)
               => IndexContent(upsert_ocr_into_index(org, asset, text)')
                    = IndexContent(index')]_vars

\* An asset indexed by both upserts, its fingerprint written twice, beside
\* the row of another tenant for the same asset.
C28_Witness ==
  /\ now > MaxUpserts
  /\ \E k \in DOMAIN index :
       /\ Truthy(index[k].etag)
       /\ index[k].ocr_tsv /= NoTsv
       /\ \E j \in DOMAIN index : index[j].org /= index[k].org
                                    /\ index[j].asset = index[k].asset

EitherFieldRows(org, sha256, etag) ==
  {k \in DOMAIN index :
     /\ index[k].org = org
     /\ \/ Truthy(sha256) /\ index[k].sha256 = sha256
        \/ Truthy(etag) /\ index[k].etag = etag}

\* C30: find_duplicates returns the newest rows, up to limit and newest
\* first, of the caller's rows whose sha256 is the given sha256 or whose etag
\* is the given etag; with both given a row matching one of them is among
\* them; with neither given it returns nothing; a row of another tenant is
\* never returned.
C30_DuplicatesEitherField ==
  resp.op = "find_duplicates"
  => LET a == resp.args
         rows == EitherFieldRows(a.org, a.sha256, a.etag)
         n == IF Cardinality(rows) < a.limit THEN Cardinality(rows) ELSE a.limit
     IN /\ Len(resp.outcome) = n
        /\ \A i \in 1..Len(resp.outcome) :
             \E k \in rows : resp.outcome[i] = DuplicateItem(index[k])
        /\ \A i, j \in 1..Len(resp.outcome) :
             i < j => /\ resp.outcome[i].asset_id /= resp.outcome[j].asset_id
                      /\ resp.outcome[i].updated_at >= resp.outcome[j].updated_at
        /\ \A k \in rows :
             (\A i \in 1..Len(resp.outcome) : resp.outcome[i].asset_id /= index[k].asset)
             => \A i \in 1..Len(resp.outcome) :
                  resp.outcome[i].updated_at >= index[k].updated_at

\* stripe_last_event_created of a row, 0 for NULL.
LastEventCreated(row) ==
  IF row.stripe_last_event_created = NullInt THEN 0 ELSE row.stripe_last_event_created

InDispatch == {"queued", "start", "fetch", "page", "persist", "complete", "raise"}

\* This step takes execution e out of dispatch_run: it returned, or raised to
\* process_intelligence_run.
LeavesDispatch(e) ==
  /\ e.kind = "arq"
  /\ e.pc \in InDispatch
  /\ e \notin execs'
  /\ ~\E f \in execs' \ execs :
        f.job = e.job /\ f.job_try = e.job_try /\ f.pc \in InDispatch

\* C32: whenever dispatch_run returns or raises, the run is completed, failed
\* or canceled.  On a terminal run it changes nothing and calls no handler; on
\* an unregistered processor the run becomes failed with completed_at and
\* dispatch returns; when the handler raises the run is failed with
\* completed_at and the error, and the exception goes on to the caller.
C32_DispatchEndsTerminal ==
  [][\A e \in execs :
       /\ LeavesDispatch(e) => IsTerminal(runs'[e.run].status)
       /\ (Dispatch(e) /\ IsTerminal(runs[e.run].status))
          => /\ UNCHANGED <<runs, results, index, deadletters>>
             /\ execs' = execs \ {e}
       /\ (Dispatch(e) /\ ~IsTerminal(runs[e.run].status)
           /\ runs[e.run].proc \notin registry)
          => /\ runs'[e.run].status = "failed"
             /\ runs'[e.run].completed_at = now
             /\ execs' = execs \ {e}
       /\ DispatchFail(e)
          => /\ runs'[e.run].status = "failed"
             /\ runs'[e.run].completed_at = now
             /\ runs'[e.run].error_message = <<e.err>>
             /\ [e EXCEPT !.pc = "wexc"] \in execs']_vars

\* C33: a delivery that follows a try whose handler raised (job_try > 1, no
\* job was delivered again for another reason) runs the handler again: the
\* run is not skipped as already terminal.
C33_TransientFailureRetried ==
  [][\A e \in execs :
       (Dispatch(e) /\ e.job_try > 1 /\ hist.redeliveries = 0
        /\ runs[e.run].proc \in registry)
       => [e EXCEPT !.pc = "start"] \in execs']_vars

\* C34: a handler that starts on a run whose cancel_requested is set writes
\* canceled with canceled_at and completed_at and returns; the run is never
\* running, the source is not fetched, and no Result or index row is written.
C34_PreStartCancelCheck ==
  [][\A e \in execs :
       ((JobHandlerStart(e) \/ BgStart(e))
        /\ runs[e.run].proc \in registry /\ runs[e.run].cancel_requested)
       => /\ runs'[e.run].status = "canceled"
          /\ runs'[e.run].canceled_at = now
          /\ runs'[e.run].completed_at = now
          /\ [e EXCEPT !.pc = "ret"] \in execs'
          /\ UNCHANGED <<results, index>>]_vars

\* C35: the writes of request_cancel_latest_run_for_asset set cancel_requested
\* only on the selected run and, for a cascading fingerprint cancel, on
\* ocr-text runs of the same tenant and asset; never on a terminal run, on a
\* run of another tenant, asset or processor; without cascade, or for another
\* processor than asset-fingerprint, on the selected run only.
C35_CascadeOnlyFingerprintToOcr ==
  [][\A j \in DOMAIN reqs :
       (CancelLatestWrite(j) \/ CascadeWrite(j))
       => \A r \in RunIds :
            runs'[r].cancel_requested /= runs[r].cancel_requested
            => /\ ~IsTerminal(runs[r].status)
               /\ runs[r].org = reqs[j].org
               /\ runs[r].asset = reqs[j].asset
               /\ \/ r = reqs[j].run /\ runs[r].proc = reqs[j].proc
                  \/ /\ reqs[j].cascade
                     /\ reqs[j].proc = FINGERPRINT
                     /\ runs[r].proc = OCR_TEXT]_vars

\* The rows of intelligence_results of run r whose type is among types.
ResultRowsOf(r, types) == {k \in DOMAIN results : results[k].run = r /\ results[k].type \in types}

\* C36: each run has at most one final Result row (fingerprint,
\* image_metadata or ocr_text) and at most one ocr_text_partial row.
C36_OneFinalResultPerRun ==
  \A r \in RunIds :
    /\ Cardinality(ResultRowsOf(r, FinalResultTypes)) <= 1
    /\ Cardinality(ResultRowsOf(r, {"ocr_text_partial"})) <= 1

\* Run r is failed by dead-lettering: failed, with a DeadletterEvent not yet
\* requeued.
FailedByDeadletter(r) ==
  /\ runs[r].status = "failed"
  /\ \E k \in DOMAIN deadletters :
        deadletters[k].run = r /\ deadletters[k].requeued_at = NullTime

\* C37: requeue_deadletter_run called by the owner on a run that is not
\* failed by dead-lettering (pending, running, completed, or without an open
\* DeadletterEvent) leaves the run's status, completed_at and results as they
\* are and enqueues no job.
C37_RequeueOnlyDeadLettered ==
  [][\A org \in Orgs, r \in RunIds :
       (requeue_deadletter_run(org, r) /\ runs[r].org = org /\ ~FailedByDeadletter(r))
       => /\ runs'[r].status = runs[r].status
          /\ runs'[r].completed_at = runs[r].completed_at
          /\ results' = results
          /\ execs' = execs]_vars

\* The ocr-text runs of (org, asset) that the automatic retry created.
AutoRetryRuns(org, asset) ==
  {r \in RunIds : /\ runs[r].org = org /\ runs[r].asset = asset
                  /\ runs[r].proc = OCR_TEXT /\ runs[r].retry_count > 0}

C39_RecordUsageLosesNoUpdate ==
  [][\A e \in execs :
       BgReturn(e)
       => LET org == runs[e.run].org
          IN /\ usage'[org].present
             /\ usage'[org].intelligence_runs = usage[org].intelligence_runs + 1
             /\ usage'[org].estimated_cost_cents
                  = usage[org].estimated_cost_cents + estimate_cost(runs[e.run].proc)]_vars

\* C40: in every state the tenant's intelligence_runs of the period is at
\* most the plan's max_runs_per_month.
C40_QuotaBoundsRecordedUsage ==
  \A o \in Orgs : usage[o].intelligence_runs <= MaxRunsPerMonth

====
